---- MODULE Spec2Model ----
(***************************************************************************)
(* A model of the concurrency core of the octox kernel: the write-ahead    *)
(* log (log.rs), inode read/write and directory operations (fs.rs), the    *)
(* FS system-call brackets (syscall.rs, file.rs), user address-space copy  *)
(* (vm.rs) and the exit/wait handshake (proc.rs).                          *)
(*                                                                         *)
(* Each subsystem has its own specification (SpecLog, SpecSys, ...) over   *)
(* its own variables; the variables of the other subsystems stay at their  *)
(* initial values.                                                         *)
(***************************************************************************)
EXTENDS Integers, Sequences, FiniteSets, TLC

(***************************************************************************)
(* Bounds of the model.                                                    *)
(***************************************************************************)
\* kernel threads issuing FS operations
NTHREADS == 2
\* param::MAXOPBLOCKS, scaled down (the log arithmetic is the code's)
MAXOPBLOCKS == 1
\* param::LOGSIZE, scaled down
LOGSIZE == 3
\* home (data) blocks behind the log area
NHOME == 2
\* block contents written by FS operations range over 0..MAXVAL
MAXVAL == 1
\* param::NOFILE (open files per process), scaled down
NOFILE == 1
\* param::NFILE (open files per system), scaled down
NFILE == 2
\* fs::BSIZE (bytes per block), scaled down
BSIZE == 3
\* fs::NDIRECT, scaled down
NDIRECT == 1
\* fs::NINDIRECT, scaled down
NINDIRECT == 1
\* longest buffer handed to an inode write
MAXLEN == 3
\* file inodes next to the directory's own
NFILES == 2
\* largest directory (in entries) the name operations start from
DIRMAX == 4
\* words per page, PGSIZE / size_of::<Uvm>() scaled down; a Uvm is one word
PGWORDS == 2
\* largest user address space of a forking process, in pages
NPAGES == 2
\* page frames the kernel heap hands small allocations from
NHEAP == 1
\* param::NPROC (process slots), scaled down; slot 1 is the init process
NPROC == 3
\* riscv::PGSIZE in bytes, scaled down
PGSZ == 2
\* the pages of user address space below the trapframe
NUPAGES == 3
\* the physical page frames the kernel can hand out
NFRAMES == 3
\* Pipe::PIPESIZE, scaled down
PIPESIZE == 2
\* the most bytes one pipe write is asked to send
NBYTES == 3
NBUF == 3
NBLOCKS == 3
MAXPIN == 1
NCPU == 2
MAXNOFF == 3
NINODE == 2
NINUM == 2
\* the processes that share a sleep lock and the clock
NKP == 2
\* how often one process takes the sleep lock
NACQ == 2
NPATH == 16
NRW == 3
NUM == 8
NVD == 3

(***************************************************************************)
(* Disk layout: [ boot | super | log header | log blocks | home blocks ].  *)
(***************************************************************************)
\* sb.logstart, as mkfs writes it
LOGSTART == 2
\* sb.nlog: mkfs sets NLOG = LOGSIZE
LogSize == LOGSIZE
HeaderBlock == LOGSTART
\* the log block that holds entry `tail` (0-based) of the transaction
LogBlock(tail) == LOGSTART + tail + 1
LogBlocks == (LOGSTART + 1)..(LOGSTART + LogSize - 1)
HomeBlocks == (LOGSTART + LogSize)..(LOGSTART + LogSize + NHOME - 1)
Blocks == {HeaderBlock} \cup LogBlocks \cup HomeBlocks
Threads == 1..NTHREADS
Values == 0..MAXVAL

VARIABLES
  \* ---- log.rs / bio.rs / the disk --------------------------------------
  disk,         \* block number -> contents (a tuple of words)
  buf,          \* block number -> [valid, data]: the buffer holding the block
  lh,           \* Log.lh: [n, block] (block is 1-based here, 0-based in Rust)
  outstanding,  \* Log.outstanding
  committing,   \* Log.committing
  pc,           \* thread -> position in its FS operation
  tail,         \* loop index of write_log / install_trans
  boot,         \* "up", or the position of Log::new()'s recovery
  panicked,     \* the kernel has panicked
  napp,         \* thread -> blocks its current operation appended to the log
  txnPre,       \* home blocks on disk when the running commit started
  txnPost,      \* home blocks as the running commit is to leave them
  crashed,      \* where the last crash fell: "none", "before" or "after" the commit point
  cleanSince,   \* no disk write since the last recovery completed
  rerun,        \* the running recovery started with cleanSince
  \* ---- syscall.rs / file.rs: FS system calls ---------------------------
  kpc,          \* thread -> [call, at]: the system call it runs and where it is
  asleep,       \* thread -> it sleeps on the log channel
  nfd,          \* thread -> used slots of its process's ofile[NOFILE]
  nfile,        \* used slots of FTABLE
  ret,          \* thread -> result of its last system call
  \* ---- fs.rs: the contents of one inode --------------------------------
  isize,        \* IData.size
  fblk,         \* block number -> the BSIZE bytes of a data block
  wlast,        \* the last IData::write: [off, src, st, tot]
  rlast,        \* the read that followed it: [st, tot, dst]
  \* ---- fs.rs: one directory and the inodes it names --------------------
  dents,        \* the directory's data blocks, one DirEnt per unit
  dsize,        \* the directory's IData.size, in units of size_of::<DirEnt>()
  nlink,        \* inode number -> DInode.nlink
  names0,       \* the names of the directory before link
  nlink0,       \* the link counts before link
  lcall,        \* the link call made: [old, new, st]
  ucall,        \* the unlink call that followed: [st]
  \* ---- vm.rs / proc.rs: fork -------------------------------------------
  mem,          \* page frame -> its PGWORDS words
  ppt,          \* the parent's user page table: page number -> [frame, flags]
  cpt,          \* the child's user page table
  ptf,          \* the parent's trapframe
  ctf,          \* the child's trapframe
  fres,         \* the result of fork: "none", "ok" or "err"
  \* ---- proc.rs: exit, wait, sleep and wakeup ---------------------------
  pstate,       \* slot -> ProcInner.state
  chan,         \* slot -> ProcInner.chan (0, or the slot slept on)
  killed,       \* slot -> ProcInner.killed
  xstate,       \* slot -> ProcInner.xstate
  pid,          \* slot -> ProcInner.pid
  parent,       \* slot -> Proc.parent (0 for none)
  plock,        \* slot -> its "proc" lock is held
  wlock,        \* PROCS.wait_lock: 0, or the slot of the holder
  ppc,          \* slot -> position of its kernel thread
  havekids,     \* slot -> wait's local havekids
  umem,         \* slot -> the word at wait's addr in the process's memory
  wret,         \* slot -> what its last wait found and returned
  estatus,      \* slot -> the status its exit was called with
  \* ---- proc.rs: alloc_proc --------------------------------------------
  nextid,       \* PId::alloc's NEXTID
  aret,         \* what alloc_proc was called with and what it returned
  \* ---- vm.rs: a user page table under sbrk and exec --------------------
  upt,          \* page number -> its leaf PTE: [pa, flags], or all zero
  usz,          \* ProcData.sz of the process, in bytes
  uframes,      \* the page frames that are allocated
  uvcall,       \* the last call, its result, and the state it started from
  upanic,       \* the kernel has panicked in vm.rs
  uguard,       \* the pages that exec has made a stack guard of
  ucpt,         \* the child's page table when the last call was a fork
  ucguard,      \* the stack guard pages that the child has inherited
  \* ---- pipe.rs / mpmc.rs / semaphore.rs / condvar.rs -------------------
  sem_cnt,      \* the Semaphore's counter
  ch_buf,       \* the channel's LinkedList, front first
  ch_lock,      \* the holder of the buffer's mutex, 0 for none
  pi_pos,       \* thread -> where it is in Pipe::read or Pipe::write
  pi_ch,        \* thread -> its local ch
  pi_i,         \* thread -> its local i
  pi_slp,       \* thread -> the condvar it sleeps on: "sem", "buf", "none"
  pi_src,       \* writer -> the bytes of its user buffer at src
  pi_dst,       \* the bytes of the reader's user buffer at dst
  pi_panic,     \* Semaphore::post's assert has failed
  \* ---- bio.rs / sleeplock.rs -------------------------------------------
  bc_next,      \* buffer -> Ctrl.next, 0 for None
  bc_prev,      \* buffer -> Ctrl.prev, a Weak handle, 0 for None
  bc_head,      \* Lru.head, 0 for None
  bc_tail,      \* Lru.tail, a Weak handle, 0 for None
  bc_cnt,       \* buffer -> Arc::strong_count
  bc_dead,      \* buffer -> its count has reached zero and it was dropped
  bc_blk,       \* buffer -> Ctrl.blockno
  bc_valid,     \* buffer -> Ctrl.valid
  bc_locked,    \* buffer -> SleepLockInfo.locked
  bc_pc,        \* thread -> "idle", "held" (has a BufGuard), "unlocked"
  bc_buf,       \* thread -> the buffer of its BufGuard, 0 for none
  bc_pins,      \* buffer -> the pins of the log that were not undone
  bc_order,     \* the buffers, the most recently released first
  bc_call,      \* the last BCache::get and what it met
  bc_panic,     \* the panic that stopped the kernel, "none" for none
  \* ---- proc.rs: Cpu, interrupts ------------------------------------------
  c_intr,       \* cpu -> sstatus.SIE, device interrupts are enabled
  c_noff,       \* cpu -> Cpu.noff, the depth of intr_lock
  c_intena,     \* cpu -> Cpu.intena
  c_pre,        \* cpu -> the interrupt state before the outermost intr_lock
  c_deep,       \* cpu -> the deepest nesting since interrupts were last set directly
  \* ---- fs.rs: ITable, MInode, the inodes and the bitmap on disk ----------
  it_slot,      \* table slot -> the MInode in it, 0 for None
  mi_inum,      \* MInode -> its inum, 0 when the object does not exist
  mi_cnt,       \* MInode -> Arc::strong_count
  mi_locked,    \* MInode -> the thread that holds its sleep lock, 0 for none
  mi_data,      \* MInode -> IData: valid, itype, nlink, addrs, ind
  it_h,         \* thread -> the MInode of its Inode handle, 0 for none
  it_pc,        \* thread -> "idle", "has", "locked", "put_mid", "put_end"
  dinode,       \* inum -> the DInode on disk: itype, nlink, addrs, ind
  indblk,       \* inum -> the entries of its indirect block
  bitmap,       \* the blocks that are marked in use
  it_last,      \* the last put: what it found and what it did
  it_panic,     \* the panic that stopped the kernel, "none" for none
  \* ---- log.rs over bio.rs: the header in memory and the pins -------------
  lb_hdr,       \* LogHeader.block[0..n], the blocks of the transaction
  lb_commit,    \* the thread that runs Log::commit, 0 for none
  lb_base,      \* buffer -> its count before the log write that pinned it, -1 for none
  \* ---- proc.rs: the locks a CPU holds on its way into Cpu::sched ---------
  sc_site,      \* cpu -> the kernel path its process runs, "none" in user space
  sc_busy,      \* cpu -> the path finds that it has to sleep
  sc_pc,        \* cpu -> the step of the path that comes next
  sc_held,      \* cpu -> the spin locks it holds, in the order taken: noff is its length
  sc_state,     \* cpu -> the state of its process
  sc_intr,      \* cpu -> interrupts are enabled
  sc_intena,    \* cpu -> Cpu.intena
  sc_panic,     \* "none" or the assertion of Cpu::sched that failed
  \* ---- proc.rs / sleeplock.rs / trap.rs: harts, a sleep lock and the clock ---
  kc_cur,       \* hart -> Cpu.proc: the process it runs, 0 in the scheduler's loop
  kc_state,     \* process -> ProcInner.state
  kc_chan,      \* process -> ProcInner.chan: "none", "lock" or "ticks"
  kc_plock,     \* process -> its slot lock (Proc.inner) is held
  kc_pc,        \* process -> where its kernel thread stands
  kc_ret,       \* process -> where it goes on when it is switched in again
  kc_lk,        \* the holder of SleepLock.lk, 0 for none
  kc_locked,    \* SleepLockInfo.locked
  kc_pid,       \* SleepLockInfo.pid, by slot; 0 for none
  kc_n,         \* process -> how often it has asked for the sleep lock
  kc_wi,        \* process -> the slot its Procs::wakeup looks at next
  kc_irq,       \* hart -> where its interrupt handler stands, "none" for none
  kc_tl,        \* the holder of TICKS: 0, a process, or -1 for clockintr on hart 1
  kc_togo,      \* process -> the ticks its sys_sleep still has to see
  kc_hwi,       \* the slot the wakeup of clockintr looks at next
  kc_panic,     \* "none" or the panic that stopped the kernel
  \* ---- proc.rs: the order of wait_lock and the locks of the process slots ---
  lo_prog,      \* process -> the lock steps of the kernel call it is in, <<>> in user space
  lo_pc,        \* process -> the step of lo_prog that comes next
  lo_held,      \* process -> the spin locks it holds, in the order taken
  \* ---- fs.rs: Path::skip_elem --------------------------------------------
  pe_path,      \* the path, a sequence of characters
  pe_out,       \* <<>> before the call, then <<name, rest>> as skip_elem returned them
  \* ---- rwlock.rs: RwLock -------------------------------------------------
  rw_rcnt,      \* RwLock.rcnt
  rw_wcnt,      \* RwLock.wcnt
  rw_pc,        \* thread -> "idle", inside a try_ call, or the guard it holds
  \* ---- lazy.rs, sync.rs: SyncOnceCell and Once ---------------------------
  oc_state,     \* SyncOnceCell.state
  oc_inner,     \* SyncOnceCell.inner: "uninit", "partial" while it is written, "init"
  oc_runs,      \* how often the initializer of the cell has run
  on_state,     \* Once.state
  on_runs,      \* how often the closure of the Once has run
  oc_pc,        \* hart -> where it is in get_or_init or call_once, "idle" outside
  oc_ret,       \* hart -> inner as the reference that get_or_init returned finds it
  on_seen,      \* hart -> state_and_queue of call_inner
  \* ---- virtio_disk.rs: the descriptors of the disk queue -----------------
  vd_free,      \* Disk.free: descriptor -> it is free
  vd_next,      \* descriptor -> Disk.desc[i].next
  vd_chained,   \* descriptor -> Disk.desc[i].flags has NEXT
  vd_req,       \* thread -> idx of its request in flight, <<>> for none
  vd_busy,      \* thread -> the device still works on its request (b.ctrl.disk)
  vd_call,      \* the last step: its kind and result, the free map before it
  vd_panic      \* "none" or the assertion that stopped the kernel

logVars == <<disk, buf, lh, outstanding, committing, pc, tail, boot, panicked,
             napp, txnPre, txnPost, crashed, cleanSince, rerun>>
sysVars == <<kpc, asleep, nfd, nfile, ret>>
ioVars == <<isize, fblk, wlast, rlast>>
dirVars == <<dents, dsize, nlink, names0, nlink0, lcall, ucall>>
vmVars == <<mem, ppt, cpt, ptf, ctf, fres>>
procVars == <<pstate, chan, killed, xstate, pid, parent, plock, wlock, ppc,
              havekids, umem, wret, estatus>>
allocVars == <<nextid, aret>>
uvmVars == <<upt, usz, uframes, uvcall, upanic, uguard, ucpt, ucguard>>
pipeVars == <<sem_cnt, ch_buf, ch_lock, pi_pos, pi_ch, pi_i, pi_slp, pi_src,
              pi_dst, pi_panic>>

bioVars == <<bc_next, bc_prev, bc_head, bc_tail, bc_cnt, bc_dead, bc_blk,
             bc_valid, bc_locked, bc_pc, bc_buf, bc_pins, bc_order, bc_call,
             bc_panic>>
intrVars == <<c_intr, c_noff, c_intena, c_pre, c_deep>>
itVars == <<it_slot, mi_inum, mi_cnt, mi_locked, mi_data, it_h, it_pc,
            dinode, indblk, bitmap, it_last, it_panic>>
lbVars == <<lb_hdr, lb_commit, lb_base>>
scVars == <<sc_site, sc_busy, sc_pc, sc_held, sc_state, sc_intr, sc_intena,
            sc_panic>>
kcVars == <<kc_cur, kc_state, kc_chan, kc_plock, kc_pc, kc_ret, kc_lk,
            kc_locked, kc_pid, kc_n, kc_wi, kc_irq, kc_tl, kc_togo, kc_hwi,
            kc_panic>>
loVars == <<lo_prog, lo_pc, lo_held>>
peVars == <<pe_path, pe_out>>
rwVars == <<rw_rcnt, rw_wcnt, rw_pc>>
ocVars == <<oc_state, oc_inner, oc_runs, on_state, on_runs, oc_pc, oc_ret,
            on_seen>>
vdVars == <<vd_free, vd_next, vd_chained, vd_req, vd_busy, vd_call, vd_panic>>
tailVars == <<intrVars, itVars, lbVars, scVars, kcVars, loVars, peVars,
              rwVars, ocVars, vdVars>>

vars == <<logVars, sysVars, ioVars, dirVars, vmVars, procVars, allocVars,
          uvmVars, pipeVars, bioVars, tailVars>>

\* no system call is running, no file is open
SysIdle ==
  /\ kpc = [t \in Threads |-> [call |-> "none", at |-> "user"]]
  /\ asleep = [t \in Threads |-> FALSE]
  /\ nfd = [t \in Threads |-> 0]
  /\ nfile = 0
  /\ ret = [t \in Threads |-> "none"]

\* the inode layer: an empty file, nothing written or read yet
MAXFILE == NDIRECT + NINDIRECT
Bytes == 0..MAXVAL
NoWrite == [off |-> 0, src |-> <<>>, st |-> "none", tot |-> 0]
NoRead == [st |-> "none", tot |-> 0, dst |-> <<>>]
IoIdle ==
  /\ isize = 0
  /\ fblk = [b \in 1..MAXFILE |-> [i \in 1..BSIZE |-> 0]]
  /\ wlast = NoWrite
  /\ rlast = NoRead

\* fs::ROOTINO, the directory's inode; the file inodes follow it
ROOTINO == 1
\* fs::DIRSIZ
DIRSIZ == 14
Inums == ROOTINO..(ROOTINO + NFILES)

\* a name as the [u8; DIRSIZ] of a DirEnt: zero padded
Pad(name) == name \o [i \in 1..(DIRSIZ - Len(name)) |-> 0]
\* DirEnt::default()
ZeroEnt == [inum |-> 0, name |-> Pad(<<>>)]
Dot == <<46>>
DotDot == <<46, 46>>
\* the directory mkfs makes: "." and ".." only
EmptyDir ==
  [b \in 1..MAXFILE |-> [i \in 1..BSIZE |->
     IF b = 1 /\ i = 1 THEN [inum |-> ROOTINO, name |-> Pad(Dot)]
     ELSE IF b = 1 /\ i = 2 THEN [inum |-> ROOTINO, name |-> Pad(DotDot)]
     ELSE ZeroEnt]]
NoCall == [old |-> <<>>, new |-> <<>>, st |-> "none"]
DirIdle ==
  /\ dents = EmptyDir
  /\ dsize = 2
  /\ nlink = [i \in Inums |-> IF i = ROOTINO THEN 1 ELSE 0]
  /\ names0 = {}
  /\ nlink0 = nlink
  /\ lcall = NoCall
  /\ ucall = "none"

\* physical memory: the frames of the parent's pages, then the heap's
Frames == 1..(NPAGES + NHEAP)
HeapFrames == (NPAGES + 1)..(NPAGES + NHEAP)
ZeroPage == [i \in 1..PGWORDS |-> 0]
ZeroTrapframe == [a0 |-> 0, epc |-> 0]
VmIdle ==
  /\ mem = [f \in Frames |-> ZeroPage]
  /\ ppt = <<>>
  /\ cpt = <<>>
  /\ ptf = ZeroTrapframe
  /\ ctf = ZeroTrapframe
  /\ fres = "none"

\* the process table with only the init process, running in user space
Procs == 1..NPROC
INITPROC == 1
NoWait == [slot |-> 0, pid |-> 0, xs |-> 0, ret |-> 0]
ProcIdle ==
  /\ pstate = [p \in Procs |-> IF p = INITPROC THEN "RUNNING" ELSE "UNUSED"]
  /\ chan = [p \in Procs |-> 0]
  /\ killed = [p \in Procs |-> FALSE]
  /\ xstate = [p \in Procs |-> 0]
  /\ pid = [p \in Procs |-> 0]
  /\ parent = [p \in Procs |-> 0]
  /\ plock = [p \in Procs |-> FALSE]
  /\ wlock = 0
  /\ ppc = [p \in Procs |-> IF p = INITPROC THEN "user" ELSE "unused"]
  /\ havekids = [p \in Procs |-> FALSE]
  /\ umem = [p \in Procs |-> 0]
  /\ wret = [p \in Procs |-> NoWait]
  /\ estatus = [p \in Procs |-> 0]

\* alloc_proc not called; init has taken pid 0
NoAlloc == [called |-> FALSE, hadfree |-> FALSE, memok |-> FALSE, slot |-> 0]
AllocIdle == nextid = 1 /\ aret = NoAlloc

\* a page table with nothing mapped, as after Uvm::create
PageNos == 0..(NUPAGES + 1)
NoPte == [pa |-> 0, flags |-> 0]
NoCallYet == [op |-> "none"]
UvmIdle ==
  /\ upt = [v \in PageNos |-> NoPte]
  /\ usz = 0
  /\ uframes = {}
  /\ uvcall = NoCallYet
  /\ upanic = FALSE
  /\ uguard = {}
  /\ ucpt = [v \in PageNos |-> NoPte]
  /\ ucguard = {}

\* a pipe that nobody uses
PipeIdle ==
  /\ sem_cnt = 0
  /\ ch_buf = <<>>
  /\ ch_lock = 0
  /\ pi_pos = [t \in Threads |-> "idle"]
  /\ pi_ch = [t \in Threads |-> 0]
  /\ pi_i = [t \in Threads |-> 0]
  /\ pi_slp = [t \in Threads |-> "none"]
  /\ pi_src = [t \in Threads |-> <<>>]
  /\ pi_dst = <<>>
  /\ pi_panic = FALSE

\* the rest of the state, for the actions of each subsystem to leave alone
(***************************************************************************)
(* The buffer cache: bio.rs.  The list of buffers is kept as Arc and Weak  *)
(* handles; bc_cnt is Arc::strong_count.  BCache::get runs with the lru    *)
(* mutex held from its first line to its return, and Lru::relse runs with  *)
(* it held too, so each is one step.  BufGuard::drop is two steps: the     *)
(* sleep lock is released before the lru mutex is taken.                   *)
(***************************************************************************)
Bufs == 1..NBUF
BlockNos == 0..(NBLOCKS - 1)

NoBCall == [op |-> "none", b |-> 0, lrr |-> 0, busy |-> FALSE, ret |-> FALSE]

\* Weak::upgrade: None when nothing is left of the strong count.
upgrade(cnt, w) == IF w # 0 /\ cnt[w] > 0 THEN w ELSE 0

\* Dropping one Arc handle of b: the count goes down, and the Buf is dropped
\* with its own handles when the count reaches zero.
RECURSIVE DropArc(_, _)
DropArc(s, b) ==
  LET c == s.cnt[b] - 1 IN
  IF c # 0 THEN [s EXCEPT !.cnt[b] = c]
  ELSE LET nx == s.next[b]
           s1 == [s EXCEPT !.cnt[b] = 0, !.dead[b] = TRUE,
                           !.next[b] = 0, !.prev[b] = 0]
       IN IF nx # 0 THEN DropArc(s1, nx) ELSE s1

\* Lru::add, on a buffer fresh from Arc::new.
lru_add(s, b) ==
  LET s0 == [s EXCEPT !.cnt[b] = 1]
      s1 == IF s0.tail # 0
              THEN [s0 EXCEPT !.next[s0.tail] = b, !.cnt[b] = @ + 1,
                              !.prev[b] = s0.tail]
              ELSE [s0 EXCEPT !.head = b, !.cnt[b] = @ + 1]
  IN DropArc([s1 EXCEPT !.tail = b], b)

EmptyLru ==
  [next |-> [b \in Bufs |-> 0], prev |-> [b \in Bufs |-> 0], head |-> 0,
   tail |-> 0, cnt |-> [b \in Bufs |-> 0], dead |-> [b \in Bufs |-> FALSE],
   panic |-> "none", ub |-> FALSE]

\* init(): the buffers are added in the order of the array.
RECURSIVE bio_init(_)
bio_init(k) == IF k = 0 THEN EmptyLru ELSE lru_add(bio_init(k - 1), k)

BioIdle ==
  /\ bc_next = bio_init(NBUF).next /\ bc_prev = bio_init(NBUF).prev
  /\ bc_head = bio_init(NBUF).head /\ bc_tail = bio_init(NBUF).tail
  /\ bc_cnt = bio_init(NBUF).cnt /\ bc_dead = [b \in Bufs |-> FALSE]
  /\ bc_blk = [b \in Bufs |-> 0] /\ bc_valid = [b \in Bufs |-> FALSE]
  /\ bc_locked = [b \in Bufs |-> FALSE]
  /\ bc_pc = [t \in Threads |-> "idle"] /\ bc_buf = [t \in Threads |-> 0]
  /\ bc_pins = [b \in Bufs |-> 0]
  /\ bc_order = [i \in 1..NBUF |-> i]
  /\ bc_call = NoBCall /\ bc_panic = "none"

notBio == <<logVars, sysVars, ioVars, dirVars, vmVars, procVars, allocVars,
            uvmVars, pipeVars, tailVars>>

\* every cpu outside all locks, interrupts off as at boot
CpuIds == 1..NCPU
IntrIdle ==
  /\ c_intr = [c \in CpuIds |-> FALSE]
  /\ c_noff = [c \in CpuIds |-> 0]
  /\ c_intena = [c \in CpuIds |-> FALSE]
  /\ c_pre = [c \in CpuIds |-> FALSE]
  /\ c_deep = [c \in CpuIds |-> 0]

\* an empty inode table over a disk without files
Slots == 1..NINODE
INums == 1..NINUM
MInodes == 1..(NINODE + NTHREADS)
FreeDInode ==
  [itype |-> "None", nlink |-> 0, addrs |-> [k \in 1..NDIRECT |-> 0],
   ind |-> 0]
NewIData == [valid |-> FALSE] @@ FreeDInode
NoPut == [op |-> "none"]
ItIdle ==
  /\ it_slot = [s \in Slots |-> 0]
  /\ mi_inum = [o \in MInodes |-> 0]
  /\ mi_cnt = [o \in MInodes |-> 0]
  /\ mi_locked = [o \in MInodes |-> 0]
  /\ mi_data = [o \in MInodes |-> NewIData]
  /\ it_h = [t \in Threads |-> 0]
  /\ it_pc = [t \in Threads |-> "idle"]
  /\ dinode = [i \in INums |-> FreeDInode]
  /\ indblk = [i \in INums |-> [j \in 1..NINDIRECT |-> 0]]
  /\ bitmap = {}
  /\ it_last = NoPut
  /\ it_panic = "none"

\* an empty log header, no commit
LbIdle ==
  /\ lb_hdr = <<>>
  /\ lb_commit = 0
  /\ lb_base = [b \in 1..NBUF |-> -1]

\* every CPU runs a process in user space, no lock held
ScIdle ==
  /\ sc_site = [c \in 1..NCPU |-> "none"]
  /\ sc_busy = [c \in 1..NCPU |-> FALSE]
  /\ sc_pc = [c \in 1..NCPU |-> 1]
  /\ sc_held = [c \in 1..NCPU |-> <<>>]
  /\ sc_state = [c \in 1..NCPU |-> "RUNNING"]
  /\ sc_intr = [c \in 1..NCPU |-> TRUE]
  /\ sc_intena = [c \in 1..NCPU |-> FALSE]
  /\ sc_panic = "none"

\* every process RUNNABLE and switched out, every hart in the scheduler
KcIdle ==
  /\ kc_cur = [h \in 1..NCPU |-> 0]
  /\ kc_state = [p \in 1..NKP |-> "RUNNABLE"]
  /\ kc_chan = [p \in 1..NKP |-> "none"]
  /\ kc_plock = [p \in 1..NKP |-> FALSE]
  /\ kc_pc = [p \in 1..NKP |-> "off"]
  /\ kc_ret = [p \in 1..NKP |-> "out"]
  /\ kc_lk = 0
  /\ kc_locked = FALSE
  /\ kc_pid = 0
  /\ kc_n = [p \in 1..NKP |-> 0]
  /\ kc_wi = [p \in 1..NKP |-> 0]
  /\ kc_irq = [h \in 1..NCPU |-> "none"]
  /\ kc_tl = 0
  /\ kc_togo = [p \in 1..NKP |-> 0]
  /\ kc_hwi = 0
  /\ kc_panic = "none"

\* every process is in user space and holds no lock
LoIdle ==
  /\ lo_prog = [p \in 1..NKP |-> <<>>]
  /\ lo_pc = [p \in 1..NKP |-> 1]
  /\ lo_held = [p \in 1..NKP |-> <<>>]

\* the empty path, skip_elem not called
PeIdle ==
  /\ pe_path = <<>>
  /\ pe_out = <<>>

\* RwLock::new: no reader, no writer
RwIdle ==
  /\ rw_rcnt = 0
  /\ rw_wcnt = FALSE
  /\ rw_pc = [t \in 1..NRW |-> "idle"]

\* SyncOnceCell::new and Once::new, no call under way
OcIdle ==
  /\ oc_state = "UNINIT"
  /\ oc_inner = "uninit"
  /\ oc_runs = 0
  /\ on_state = "IMCOMPLETE"
  /\ on_runs = 0
  /\ oc_pc = [h \in 1..NRW |-> "idle"]
  /\ oc_ret = [h \in 1..NRW |-> "none"]
  /\ on_seen = [h \in 1..NRW |-> "IMCOMPLETE"]

\* Disk::init: all descriptors start out unused
VdIdle ==
  /\ vd_free = [i \in 0..(NUM - 1) |-> TRUE]
  /\ vd_next = [i \in 0..(NUM - 1) |-> 0]
  /\ vd_chained = [i \in 0..(NUM - 1) |-> FALSE]
  /\ vd_req = [t \in 1..NVD |-> <<>>]
  /\ vd_busy = [t \in 1..NVD |-> FALSE]
  /\ vd_call = [op |-> "none"]
  /\ vd_panic = "none"

TailIdle == IntrIdle /\ ItIdle /\ LbIdle /\ ScIdle /\ KcIdle /\ LoIdle /\ PeIdle /\ RwIdle /\ OcIdle /\ VdIdle

oldVars == <<logVars, sysVars, ioVars, dirVars, vmVars, procVars, allocVars,
            uvmVars, pipeVars, bioVars>>
notIntr == <<oldVars, itVars, lbVars, scVars, kcVars, loVars, peVars, rwVars,
             ocVars, vdVars>>
IntrRest == ItIdle /\ LbIdle /\ ScIdle /\ KcIdle /\ LoIdle /\ PeIdle /\ RwIdle /\ OcIdle /\ VdIdle
notIt == <<oldVars, intrVars, lbVars, scVars, kcVars, loVars, peVars, rwVars,
           ocVars, vdVars>>
ItRest == IntrIdle /\ LbIdle /\ ScIdle /\ KcIdle /\ LoIdle /\ PeIdle /\ RwIdle /\ OcIdle /\ VdIdle
notLb == <<oldVars, intrVars, itVars, scVars, kcVars, loVars, peVars, rwVars,
           ocVars, vdVars>>
notLbBio == <<logVars, sysVars, ioVars, dirVars, vmVars, procVars, allocVars,
              uvmVars, pipeVars, intrVars, itVars, scVars, kcVars, loVars,
              peVars, rwVars, ocVars, vdVars>>
LbRest == IntrIdle /\ ItIdle /\ ScIdle /\ KcIdle /\ LoIdle /\ PeIdle /\ RwIdle /\ OcIdle /\ VdIdle
notSc == <<oldVars, intrVars, itVars, lbVars, kcVars, loVars, peVars, rwVars,
           ocVars, vdVars>>
ScRest == IntrIdle /\ ItIdle /\ LbIdle /\ KcIdle /\ LoIdle /\ PeIdle /\ RwIdle /\ OcIdle /\ VdIdle
notKc == <<oldVars, intrVars, itVars, lbVars, scVars, loVars, peVars, rwVars,
           ocVars, vdVars>>
KcRest == IntrIdle /\ ItIdle /\ LbIdle /\ ScIdle /\ LoIdle /\ PeIdle /\ RwIdle /\ OcIdle /\ VdIdle
notLo == <<oldVars, intrVars, itVars, lbVars, scVars, kcVars, peVars, rwVars,
           ocVars, vdVars>>
LoRest == IntrIdle /\ ItIdle /\ LbIdle /\ ScIdle /\ KcIdle /\ PeIdle /\ RwIdle /\ OcIdle /\ VdIdle
notPe == <<oldVars, intrVars, itVars, lbVars, scVars, kcVars, loVars, rwVars,
           ocVars, vdVars>>
PeRest == IntrIdle /\ ItIdle /\ LbIdle /\ ScIdle /\ KcIdle /\ LoIdle /\ RwIdle /\ OcIdle /\ VdIdle
notRw == <<oldVars, intrVars, itVars, lbVars, scVars, kcVars, loVars, peVars,
           ocVars, vdVars>>
RwRest == IntrIdle /\ ItIdle /\ LbIdle /\ ScIdle /\ KcIdle /\ LoIdle /\ PeIdle /\ OcIdle /\ VdIdle
notOc == <<oldVars, intrVars, itVars, lbVars, scVars, kcVars, loVars, peVars,
           rwVars, vdVars>>
OcRest == IntrIdle /\ ItIdle /\ LbIdle /\ ScIdle /\ KcIdle /\ LoIdle /\ PeIdle /\ RwIdle /\ VdIdle
notVd == <<oldVars, intrVars, itVars, lbVars, scVars, kcVars, loVars, peVars,
           rwVars, ocVars>>
VdRest == IntrIdle /\ ItIdle /\ LbIdle /\ ScIdle /\ KcIdle /\ LoIdle /\ PeIdle /\ RwIdle /\ OcIdle

others == <<allocVars, uvmVars, pipeVars, bioVars, tailVars>>
notLog == <<sysVars, ioVars, dirVars, vmVars, procVars, others>>
notSys == <<disk, buf, pc, tail, boot, napp, txnPre, txnPost, crashed,
            cleanSince, rerun, ioVars, dirVars, vmVars, procVars, others>>
notIo == <<logVars, sysVars, dirVars, vmVars, procVars, others>>
notDir == <<logVars, sysVars, ioVars, vmVars, procVars, others>>
notVm == <<logVars, sysVars, ioVars, dirVars, procVars, others>>
notProc == <<logVars, sysVars, ioVars, dirVars, vmVars, others>>
notAlloc == <<logVars, sysVars, ioVars, dirVars, vmVars, uvmVars, pipeVars,
              bioVars, tailVars>>
notUvm == <<logVars, sysVars, ioVars, dirVars, vmVars, procVars, allocVars,
            pipeVars, bioVars, tailVars>>
notPipe == <<logVars, sysVars, ioVars, dirVars, vmVars, procVars, allocVars,
             uvmVars, bioVars, tailVars>>

(***************************************************************************)
(* Block contents.  A block is a tuple of u32 words; a data block is       *)
(* modelled by its first word, the header block by LogHeader's words.      *)
(***************************************************************************)
ZeroBlocks == [i \in 1..LOGSIZE |-> 0]
\* LogHeader as the words of the header block (log.rs: *hb = self.lh)
EncodeHead(h) == <<h.n>> \o h.block
\* the header block read back as a LogHeader (log.rs: self.lh = *lh)
DecodeHead(s) == [n |-> s[1], block |-> SubSeq(s, 2, Len(s))]

\* BCACHE.read: the buffer of block b, filled from disk unless it is valid
Bread(bf, d, b) ==
  IF bf[b].valid THEN bf ELSE [bf EXCEPT ![b] = [valid |-> TRUE, data |-> d[b]]]

\* BufGuard::write after filling buffer b with `data`: both cache and disk
Bwrite(bf, d, b, data) ==
  [buf |-> [bf EXCEPT ![b] = [valid |-> TRUE, data |-> data]],
   disk |-> [d EXCEPT ![b] = data]]

\* Log::write_head
write_head(bf, d, h) ==
  Bwrite(Bread(bf, d, HeaderBlock), d, HeaderBlock, EncodeHead(h))

\* Log::read_head: the buffers after the read, and the header read
read_head(bf, d) ==
  LET b1 == Bread(bf, d, HeaderBlock)
  IN  [buf |-> b1, lh |-> DecodeHead(b1[HeaderBlock].data)]

\* a write_log that leaves the log block as it is
write_log_skip(bf, d, h, tl) == [buf |-> bf, disk |-> d]

\* one iteration of Log::write_log: cache block -> log block, written to disk
write_log(bf, d, h, tl) ==
  LET b1 == Bread(bf, d, LogBlock(tl))
      b2 == Bread(b1, d, h.block[tl + 1])
  IN  Bwrite(b2, d, LogBlock(tl), b2[h.block[tl + 1]].data)

\* one iteration of Log::install_trans: log block -> home block, written to disk
install_trans(bf, d, h, tl) ==
  LET b1 == Bread(bf, d, LogBlock(tl))
      b2 == Bread(b1, d, h.block[tl + 1])
  IN  Bwrite(b2, d, h.block[tl + 1], b2[LogBlock(tl)].data)

\* the home blocks of a disk
Home(d) == [b \in HomeBlocks |-> d[b]]


(***************************************************************************)
(* The log: begin_op / LOG.write / end_op / commit, crash and recovery.    *)
(***************************************************************************)
\* variants of the operators below that drop one safeguard each
LogFullNoReserve(n, out) == n + out * MAXOPBLOCKS > LOGSIZE
MustWaitLogOnly(comm, n, out) == n + (out + 1) * MAXOPBLOCKS > LOGSIZE
keep_head(h) == h
wakeup_lost(p) == p

\* begin_op's second test: this op might exhaust log space
LogFull(n, out) == n + (out + 1) * MAXOPBLOCKS > LOGSIZE

\* begin_op sleeps while a commit runs or the log might overflow
MustWait(comm, n, out) == comm \/ LogFull(n, out)

\* PROCS.wakeup(log channel): every thread sleeping in begin_op retries
wakeup(p) == [t \in Threads |-> IF p[t] = "sleep" THEN "begin_op" ELSE p[t]]

\* recover(): self.lh.n = 0 before the final write_head
clear_head(h) == [h EXCEPT !.n = 0]

\* the in-memory state Log::new() starts from
NewHeader == [n |-> 0, block |-> ZeroBlocks]
NoBuffers == [b \in Blocks |-> [valid |-> FALSE, data |-> <<0>>]]

\* the disk image mkfs produces: every block zeroed
MkfsDisk == [b \in Blocks |-> IF b = HeaderBlock THEN EncodeHead(NewHeader) ELSE <<0>>]

\* where a crash falls relative to the commit point of a running commit
CrashPoint ==
  IF \E t \in Threads : pc[t] = "commit" THEN "before"
  ELSE IF \E t \in Threads : pc[t] \in {"install", "end_commit"} THEN "after"
  ELSE "none"

LogIdle ==
  /\ disk = MkfsDisk
  /\ buf = [NoBuffers EXCEPT ![HeaderBlock] = [valid |-> TRUE, data |-> MkfsDisk[HeaderBlock]]]
  /\ lh = NewHeader
  /\ outstanding = 0
  /\ committing = FALSE
  /\ pc = [t \in Threads |-> "user"]
  /\ tail = 0
  /\ boot = "up"
  /\ panicked = FALSE
  /\ napp = [t \in Threads |-> 0]
  /\ txnPre = Home(MkfsDisk)
  /\ txnPost = Home(MkfsDisk)
  /\ crashed = "none"
  /\ cleanSince = TRUE
  /\ rerun = FALSE

InitLog == LogIdle /\ SysIdle /\ IoIdle /\ DirIdle /\ VmIdle /\ ProcIdle /\ AllocIdle /\ UvmIdle /\ PipeIdle /\ BioIdle /\ TailIdle

Running == boot = "up" /\ ~panicked

\* a thread enters an FS system call
fs_syscall(t) ==
  /\ Running /\ pc[t] = "user"
  /\ pc' = [pc EXCEPT ![t] = "begin_op"]
  /\ UNCHANGED <<disk, buf, lh, outstanding, committing, tail, boot, panicked,
                 napp, txnPre, txnPost, crashed, cleanSince, rerun>>
  /\ UNCHANGED notLog

\* Mutex<Log>::begin_op, one pass of its loop under the log lock
begin_op(t) ==
  /\ Running /\ pc[t] = "begin_op"
  /\ IF MustWait(committing, lh.n, outstanding)
       THEN /\ pc' = [pc EXCEPT ![t] = "sleep"]
            /\ UNCHANGED outstanding
       ELSE /\ outstanding' = outstanding + 1
            /\ pc' = [pc EXCEPT ![t] = "in_op"]
  /\ UNCHANGED <<disk, buf, lh, committing, tail, boot, panicked,
                 napp, txnPre, txnPost, crashed, cleanSince, rerun>>
  /\ UNCHANGED notLog

\* the caller fills the buffer of block b with v, then Mutex<Log>::write
log_write(t, b, v) ==
  /\ Running /\ pc[t] = "in_op" /\ napp[t] < MAXOPBLOCKS
  /\ buf' = [Bread(buf, disk, b) EXCEPT ![b].data = <<v>>]
  /\ IF lh.n >= LOGSIZE \/ lh.n >= LogSize - 1 \/ outstanding < 1
       THEN /\ panicked' = TRUE
            /\ UNCHANGED <<lh, napp>>
       ELSE IF \E i \in 1..lh.n : lh.block[i] = b
         THEN UNCHANGED <<lh, napp, panicked>>
         ELSE /\ lh' = [n |-> lh.n + 1, block |-> [lh.block EXCEPT ![lh.n + 1] = b]]
              /\ napp' = [napp EXCEPT ![t] = napp[t] + 1]
              /\ UNCHANGED panicked
  /\ UNCHANGED <<disk, outstanding, committing, pc, tail, boot,
                 txnPre, txnPost, crashed, cleanSince, rerun>>
  /\ UNCHANGED notLog

\* Mutex<Log>::end_op, its locked first half
end_op(t) ==
  /\ Running /\ pc[t] = "in_op"
  /\ outstanding' = outstanding - 1
  /\ napp' = [napp EXCEPT ![t] = 0]
  /\ IF committing
       THEN /\ panicked' = TRUE
            /\ UNCHANGED <<committing, pc, tail, txnPre, txnPost>>
       ELSE IF outstanding' = 0
         THEN /\ committing' = TRUE
              /\ pc' = [pc EXCEPT ![t] = "commit"]
              /\ tail' = 0
              /\ txnPre' = Home(disk)
              /\ txnPost' = [b \in HomeBlocks |->
                               IF \E i \in 1..lh.n : lh.block[i] = b
                                 THEN buf[b].data ELSE disk[b]]
              /\ UNCHANGED panicked
         ELSE /\ pc' = [wakeup(pc) EXCEPT ![t] = "user"]
              /\ UNCHANGED <<committing, tail, txnPre, txnPost, panicked>>
  /\ UNCHANGED <<disk, buf, lh, boot, crashed, cleanSince, rerun>>
  /\ UNCHANGED notLog


\* Log::commit, one iteration of write_log
commit_write_log(t) ==
  /\ Running /\ pc[t] = "commit" /\ lh.n > 0 /\ tail < lh.n
  /\ LET w == write_log(buf, disk, lh, tail)
     IN  buf' = w.buf /\ disk' = w.disk
  /\ tail' = tail + 1
  /\ cleanSince' = FALSE
  /\ UNCHANGED <<lh, outstanding, committing, pc, boot, panicked,
                 napp, txnPre, txnPost, crashed, rerun>>
  /\ UNCHANGED notLog

\* Log::commit, the first write_head: the commit point
commit_write_head(t) ==
  /\ Running /\ pc[t] = "commit" /\ lh.n > 0 /\ tail = lh.n
  /\ LET w == write_head(buf, disk, lh)
     IN  buf' = w.buf /\ disk' = w.disk
  /\ tail' = 0
  /\ pc' = [pc EXCEPT ![t] = "install"]
  /\ cleanSince' = FALSE
  /\ UNCHANGED <<lh, outstanding, committing, boot, panicked,
                 napp, txnPre, txnPost, crashed, rerun>>
  /\ UNCHANGED notLog

\* Log::commit, one iteration of install_trans(false)
commit_install_trans(t) ==
  /\ Running /\ pc[t] = "install" /\ tail < lh.n
  /\ LET w == install_trans(buf, disk, lh, tail)
     IN  buf' = w.buf /\ disk' = w.disk
  /\ tail' = tail + 1
  /\ cleanSince' = FALSE
  /\ UNCHANGED <<lh, outstanding, committing, pc, boot, panicked,
                 napp, txnPre, txnPost, crashed, rerun>>
  /\ UNCHANGED notLog

\* Log::commit, lh.n = 0 and the second write_head
commit_clear(t) ==
  /\ Running /\ pc[t] = "install" /\ tail = lh.n
  /\ lh' = clear_head(lh)
  /\ LET w == write_head(buf, disk, lh')
     IN  buf' = w.buf /\ disk' = w.disk
  /\ tail' = 0
  /\ pc' = [pc EXCEPT ![t] = "end_commit"]
  /\ cleanSince' = FALSE
  /\ UNCHANGED <<outstanding, committing, boot, panicked,
                 napp, txnPre, txnPost, crashed, rerun>>
  /\ UNCHANGED notLog

\* Mutex<Log>::end_op, its second half: committing = false and wakeup
end_op_done(t) ==
  /\ Running
  /\ pc[t] = "end_commit" \/ (pc[t] = "commit" /\ lh.n = 0)
  /\ committing' = FALSE
  /\ pc' = [wakeup(pc) EXCEPT ![t] = "user"]
  /\ txnPre' = Home(disk)
  /\ txnPost' = Home(disk)
  /\ UNCHANGED <<disk, buf, lh, outstanding, tail, boot, panicked,
                 napp, crashed, cleanSince, rerun>>
  /\ UNCHANGED notLog

\* power loss: memory is lost, the disk stays; the kernel boots into Log::new()
crash ==
  /\ disk' = disk
  /\ buf' = NoBuffers
  /\ lh' = NewHeader
  /\ outstanding' = 0
  /\ committing' = FALSE
  /\ pc' = [t \in Threads |-> "user"]
  /\ tail' = 0
  /\ boot' = "read_head"
  /\ panicked' = FALSE
  /\ napp' = [t \in Threads |-> 0]
  /\ crashed' = IF boot = "up" THEN CrashPoint ELSE crashed
  /\ rerun' = IF boot \in {"up", "recovered"} THEN cleanSince ELSE rerun
  /\ UNCHANGED <<txnPre, txnPost, cleanSince>>
  /\ UNCHANGED notLog

\* Log::recover, read_head
recover_read_head ==
  /\ boot = "read_head"
  /\ LET r == read_head(buf, disk)
     IN  buf' = r.buf /\ lh' = r.lh
  /\ tail' = 0
  /\ boot' = "install"
  /\ UNCHANGED <<disk, outstanding, committing, pc, panicked,
                 napp, txnPre, txnPost, crashed, cleanSince, rerun>>
  /\ UNCHANGED notLog

\* Log::recover, one iteration of install_trans(true)
recover_install_trans ==
  /\ boot = "install" /\ tail < lh.n
  /\ LET w == install_trans(buf, disk, lh, tail)
     IN  buf' = w.buf /\ disk' = w.disk
  /\ tail' = tail + 1
  /\ UNCHANGED <<lh, outstanding, committing, pc, boot, panicked,
                 napp, txnPre, txnPost, crashed, cleanSince, rerun>>
  /\ UNCHANGED notLog

\* Log::recover, lh.n = 0 and write_head: the log is cleared
recover_clear ==
  /\ boot = "install" /\ tail = lh.n
  /\ lh' = clear_head(lh)
  /\ LET w == write_head(buf, disk, lh')
     IN  buf' = w.buf /\ disk' = w.disk
  /\ tail' = 0
  /\ boot' = "recovered"
  /\ cleanSince' = TRUE
  /\ UNCHANGED <<outstanding, committing, pc, panicked,
                 napp, txnPre, txnPost, crashed, rerun>>
  /\ UNCHANGED notLog

\* Log::new() returns: FS system calls may run
recover_done ==
  /\ boot = "recovered"
  /\ boot' = "up"
  /\ crashed' = "none"
  /\ rerun' = FALSE
  /\ txnPre' = Home(disk)
  /\ txnPost' = Home(disk)
  /\ UNCHANGED <<disk, buf, lh, outstanding, committing, pc, tail, panicked,
                 napp, cleanSince>>
  /\ UNCHANGED notLog

NextLog ==
  \/ \E t \in Threads : fs_syscall(t)
  \/ \E t \in Threads : begin_op(t)
  \/ \E t \in Threads, b \in HomeBlocks, v \in Values : log_write(t, b, v)
  \/ \E t \in Threads : end_op(t)
  \/ \E t \in Threads : commit_write_log(t)
  \/ \E t \in Threads : commit_write_head(t)
  \/ \E t \in Threads : commit_install_trans(t)
  \/ \E t \in Threads : commit_clear(t)
  \/ \E t \in Threads : end_op_done(t)
  \/ crash
  \/ recover_read_head
  \/ recover_install_trans
  \/ recover_clear
  \/ recover_done

SpecLog == InitLog /\ [][NextLog]_vars


(***************************************************************************)
(* FS system calls: the begin_op/end_op brackets of syscall.rs and the     *)
(* transaction File::drop opens for itself.  The commit is taken as one    *)
(* step here; FTABLE is the table of its declared type, empty at boot.     *)
(***************************************************************************)
\* link, unlink, mkdir, mknod and chdir: begin_op; <fs function>; end_op
PathCalls == {"link", "unlink", "mkdir", "mknod", "chdir"}

At(t, c, a) == [kpc EXCEPT ![t] = [call |-> c, at |-> a]]

InitSys == LogIdle /\ SysIdle /\ IoIdle /\ DirIdle /\ VmIdle /\ ProcIdle /\ AllocIdle /\ UvmIdle /\ PipeIdle /\ BioIdle /\ TailIdle

\* SysCalls::{link,unlink,mkdir,mknod,chdir,open}: arg_str, then begin_op
sys_enter(t, c, argok) ==
  /\ ~panicked /\ kpc[t].at = "user"
  /\ IF argok
       THEN kpc' = At(t, c, "begin_op") /\ ret' = [ret EXCEPT ![t] = "none"]
       ELSE kpc' = kpc /\ ret' = [ret EXCEPT ![t] = "err"]
  /\ UNCHANGED <<lh, outstanding, committing, panicked, asleep, nfd, nfile>>
  /\ UNCHANGED notSys

\* Mutex<Log>::begin_op, called by a system call or by File::drop
sys_begin_op(t) ==
  /\ ~panicked /\ ~asleep[t]
  /\ kpc[t].at \in {"begin_op", "drop_begin_op"}
  /\ IF MustWait(committing, lh.n, outstanding)
       THEN /\ asleep' = [asleep EXCEPT ![t] = TRUE]
            /\ UNCHANGED <<outstanding, kpc>>
       ELSE /\ outstanding' = outstanding + 1
            /\ kpc' = At(t, kpc[t].call,
                         IF kpc[t].at = "begin_op" THEN "body" ELSE "drop_body")
            /\ UNCHANGED asleep
  /\ UNCHANGED <<lh, committing, panicked, nfd, nfile, ret>>
  /\ UNCHANGED notSys

\* the FS function inside the bracket logs w new blocks through LOG.write
LogBlocksWritten(w) ==
  IF lh.n + w > LogSize - 1 \/ lh.n + w > LOGSIZE
    THEN panicked' = TRUE /\ lh' = lh
    ELSE panicked' = FALSE /\ lh' = [lh EXCEPT !.n = lh.n + w]

\* fs::link, fs::unlink, fs::create or chdir's closure, with its result
sys_body(t, w, ok) ==
  /\ ~panicked /\ kpc[t].at = "body" /\ kpc[t].call \in PathCalls
  /\ LogBlocksWritten(w)
  /\ ret' = [ret EXCEPT ![t] = IF ok THEN "ok" ELSE "err"]
  /\ kpc' = At(t, kpc[t].call, "end_op")
  /\ UNCHANGED <<outstanding, committing, asleep, nfd, nfile>>
  /\ UNCHANGED notSys

\* SysCalls::open between begin_op and end_op:
\* FTABLE.alloc(..).and_then(|f| data.fdalloc(f))
sys_open_body(t, w, found) ==
  /\ ~panicked /\ kpc[t].at = "body" /\ kpc[t].call = "open"
  /\ LogBlocksWritten(w)
  /\ IF ~found \/ nfile = NFILE
       \* FTable::alloc returns None; the inode is put inside the bracket
       THEN /\ ret' = [ret EXCEPT ![t] = "err"]
            /\ kpc' = At(t, "open", "end_op")
            /\ UNCHANGED <<nfd, nfile>>
       ELSE IF nfd[t] < NOFILE
         \* fdalloc stores the File in a free slot
         THEN /\ ret' = [ret EXCEPT ![t] = "ok"]
              /\ nfd' = [nfd EXCEPT ![t] = nfd[t] + 1]
              /\ nfile' = nfile + 1
              /\ kpc' = At(t, "open", "end_op")
         \* fdalloc finds no slot and drops the File: File::drop clears the
         \* FTABLE slot and, holding the last reference, calls begin_op
         ELSE /\ ret' = [ret EXCEPT ![t] = "err"]
              /\ kpc' = At(t, "open", "drop_begin_op")
              /\ UNCHANGED <<nfd, nfile>>
  /\ UNCHANGED <<outstanding, committing, asleep>>
  /\ UNCHANGED notSys

\* SysCalls::close: arg_fd, then ofile[fd].take() drops the File
sys_close(t) ==
  /\ ~panicked /\ kpc[t].at = "user"
  /\ IF nfd[t] = 0
       THEN /\ ret' = [ret EXCEPT ![t] = "err"]
            /\ UNCHANGED <<kpc, nfd, nfile>>
       ELSE /\ ret' = [ret EXCEPT ![t] = "ok"]
            /\ nfd' = [nfd EXCEPT ![t] = nfd[t] - 1]
            /\ nfile' = nfile - 1
            /\ kpc' = At(t, "close", "drop_begin_op")
  /\ UNCHANGED <<lh, outstanding, committing, panicked, asleep>>
  /\ UNCHANGED notSys

\* File::drop: drop(ip) between its begin_op and end_op
sys_drop_body(t, w) ==
  /\ ~panicked /\ kpc[t].at = "drop_body"
  /\ LogBlocksWritten(w)
  /\ kpc' = At(t, kpc[t].call, "drop_end_op")
  /\ UNCHANGED <<outstanding, committing, asleep, nfd, nfile, ret>>
  /\ UNCHANGED notSys

\* where a thread continues after end_op returns
AfterEndOp(k) ==
  IF k.at \in {"drop_end_op", "drop_commit"} /\ k.call = "open"
    THEN [call |-> "open", at |-> "end_op"]
    ELSE [call |-> "none", at |-> "user"]

\* Mutex<Log>::end_op, its locked first half
sys_end_op(t) ==
  /\ ~panicked /\ kpc[t].at \in {"end_op", "drop_end_op"}
  /\ outstanding' = outstanding - 1
  /\ IF committing
       THEN panicked' = TRUE /\ UNCHANGED <<committing, kpc, asleep>>
       ELSE IF outstanding' = 0
         THEN /\ committing' = TRUE
              /\ kpc' = At(t, kpc[t].call,
                           IF kpc[t].at = "end_op" THEN "commit" ELSE "drop_commit")
              /\ UNCHANGED <<panicked, asleep>>
         ELSE /\ asleep' = [u \in Threads |-> FALSE]
              /\ kpc' = [kpc EXCEPT ![t] = AfterEndOp(kpc[t])]
              /\ UNCHANGED <<panicked, committing>>
  /\ UNCHANGED <<lh, nfd, nfile, ret>>
  /\ UNCHANGED notSys

\* Log::commit (leaves lh.n = 0) and the second half of end_op
sys_commit(t) ==
  /\ ~panicked /\ kpc[t].at \in {"commit", "drop_commit"}
  /\ lh' = clear_head(lh)
  /\ committing' = FALSE
  /\ asleep' = [u \in Threads |-> FALSE]
  /\ kpc' = [kpc EXCEPT ![t] = AfterEndOp(kpc[t])]
  /\ UNCHANGED <<outstanding, panicked, nfd, nfile, ret>>
  /\ UNCHANGED notSys

NextSys ==
  \/ \E t \in Threads, c \in PathCalls \cup {"open"}, argok \in BOOLEAN :
       sys_enter(t, c, argok)
  \/ \E t \in Threads : sys_begin_op(t)
  \/ \E t \in Threads, w \in 0..MAXOPBLOCKS, ok \in BOOLEAN : sys_body(t, w, ok)
  \/ \E t \in Threads, w \in 0..MAXOPBLOCKS, found \in BOOLEAN :
       sys_open_body(t, w, found)
  \/ \E t \in Threads : sys_close(t)
  \/ \E t \in Threads, w \in 0..MAXOPBLOCKS : sys_drop_body(t, w)
  \/ \E t \in Threads : sys_end_op(t)
  \/ \E t \in Threads : sys_commit(t)

SpecSys == InitSys /\ [][NextSys]_vars

\* threads inside a begin_op/end_op bracket: a system call's own, or the
\* one File::drop opens
InFlight ==
  {t \in Threads :
     \/ kpc[t].at \in {"body", "end_op", "drop_body", "drop_end_op"}
     \/ kpc[t].call = "open" /\ kpc[t].at = "drop_begin_op"}

\* C4: begin_op and end_op are balanced on every path, so outstanding
\* equals the number of FS system calls inside their bracket, and is 0
\* when there is none.
C4_Balanced == ~panicked => outstanding = Cardinality(InFlight)

(***************************************************************************)
(* Inode contents: IData::write and IData::read on one inode whose data    *)
(* blocks are all allocated, so that bmap is a lookup.                     *)
(***************************************************************************)
Min(a, b) == IF a < b THEN a ELSE b

\* IData.addrs[0..NDIRECT) of the inode: its direct data blocks
addrs == [i \in 1..NDIRECT |-> i]
\* the entries of its indirect block addrs[NDIRECT]
indirect == [j \in 1..NINDIRECT |-> NDIRECT + j]

\* IData::bmap: the block holding the bn-th block of the file, 0 for Err
bmap(bn) ==
  IF bn < NDIRECT THEN addrs[bn + 1]
  ELSE IF bn - NDIRECT < NINDIRECT THEN indirect[bn - NDIRECT + 1]
  ELSE 0

\* the while loop of IData::write: either_copyin(&mut bp[off % BSIZE..m], src)
\* fills the slice from the user buffer at src, then tot, off and src
\* advance by m
RECURSIVE write_loop(_, _, _, _)
write_loop(blks, off, tot, src) ==
  IF tot >= Len(src) THEN [st |-> "ok", blks |-> blks, off |-> off, tot |-> tot]
  ELSE
    LET b  == bmap(off \div BSIZE)
        m  == Min(Len(src) - tot, BSIZE - (off % BSIZE))
        lo == off % BSIZE
    IN  IF b = 0 THEN [st |-> "err", blks |-> blks, off |-> off, tot |-> tot]
        ELSE IF lo > m
          \* slice index starts after its end
          THEN [st |-> "panic", blks |-> blks, off |-> off, tot |-> tot]
          ELSE write_loop(
                 [blks EXCEPT ![b] =
                    [i \in 1..BSIZE |->
                       IF i > lo /\ i <= m THEN src[tot + (i - lo)] ELSE blks[b][i]]],
                 off + m, tot + m, src)

\* the while loop of IData::read: either_copyout(dst, &bp[off % BSIZE..m])
\* stores the slice at dst, then tot, off and dst advance by m
RECURSIVE read_loop(_, _, _, _, _)
read_loop(blks, off, tot, n, dst) ==
  IF tot >= n THEN [st |-> "ok", tot |-> tot, dst |-> dst]
  ELSE
    LET b  == bmap(off \div BSIZE)
        m  == Min(n - tot, BSIZE - (off % BSIZE))
        lo == off % BSIZE
    IN  IF b = 0 THEN [st |-> "err", tot |-> tot, dst |-> dst]
        ELSE IF lo > m
          THEN [st |-> "panic", tot |-> tot, dst |-> dst]
          ELSE read_loop(blks, off + m, tot + m, n,
                 [i \in 1..Len(dst) |->
                    IF i > tot /\ i <= tot + (m - lo)
                      THEN blks[b][lo + (i - tot)] ELSE dst[i]])

\* IData::read: the bounds checks, then the loop
IData_read(blks, size, off, n, dst) ==
  IF off > size THEN [st |-> "err", tot |-> 0, dst |-> dst]
  ELSE read_loop(blks, off, 0, IF off + n > size THEN size - off ELSE n, dst)

\* IData::write: the bounds checks, the loop, then the size update
IData_write(blks, size, off, src) ==
  IF off > size \/ off + Len(src) > MAXFILE * BSIZE
    THEN [st |-> "err", tot |-> 0, blks |-> blks, size |-> size]
    ELSE LET w == write_loop(blks, off, 0, src)
         IN  [st |-> w.st, tot |-> w.tot, blks |-> w.blks,
              size |-> IF w.st = "ok" /\ w.off > size THEN w.off ELSE size]

InitIo == LogIdle /\ SysIdle /\ IoIdle /\ DirIdle /\ VmIdle /\ ProcIdle /\ AllocIdle /\ UvmIdle /\ PipeIdle /\ BioIdle /\ TailIdle

\* IData::write(src, off, n) with the n bytes at src given as a sequence
iwrite(off, src) ==
  /\ wlast.st # "panic"
  /\ LET w == IData_write(fblk, isize, off, src)
     IN  /\ wlast' = [off |-> off, src |-> src, st |-> w.st, tot |-> w.tot]
         /\ fblk' = w.blks
         /\ isize' = w.size
  /\ rlast' = NoRead
  /\ UNCHANGED notIo

\* IData::read(dst, off, n) at the offset and length of the last write,
\* into a zeroed user buffer
iread ==
  /\ wlast.st = "ok" /\ rlast.st = "none"
  /\ rlast' = IData_read(fblk, isize, wlast.off, Len(wlast.src),
                         [i \in 1..Len(wlast.src) |-> 0])
  /\ UNCHANGED <<isize, fblk, wlast>>
  /\ UNCHANGED notIo

SeqsUpTo(S, k) == UNION {[1..n -> S] : n \in 1..k}

NextIo ==
  \/ \E off \in 0..(MAXFILE * BSIZE), src \in SeqsUpTo(Bytes, MAXLEN) : iwrite(off, src)
  \/ iread

SpecIo == InitIo /\ [][NextIo]_vars

\* C6: a write of a byte sequence at an offset inside the file's limits
\* completes and returns its length, and reading the same number of bytes
\* at the same offset then returns exactly the written bytes.
C6_RoundTrip ==
  /\ wlast.st \in {"ok", "panic"} =>
       (wlast.st = "ok" /\ wlast.tot = Len(wlast.src))
  /\ rlast.st # "none" =>
       (rlast.st = "ok" /\ rlast.tot = Len(wlast.src) /\ rlast.dst = wlast.src)

(***************************************************************************)
(* Names: link and unlink in one directory, the current directory of the   *)
(* caller, with paths of one element.  Directory entries are read and      *)
(* written through IData::read and IData::write, one DirEnt being one unit *)
(* of the inode's contents.                                                *)
(***************************************************************************)
\* str::trim_matches(char::from(0)) on the bytes of a DirEnt name
RECURSIVE TrimLeft(_)
TrimLeft(n) == IF n # <<>> /\ Head(n) = 0 THEN TrimLeft(Tail(n)) ELSE n
RECURSIVE TrimRight(_)
TrimRight(n) ==
  IF n # <<>> /\ n[Len(n)] = 0 THEN TrimRight(SubSeq(n, 1, Len(n) - 1)) ELSE n
Trim(n) == TrimRight(TrimLeft(n))

\* Path::skip_elem on a path without '/': the None arm of its match
skip_elem(path) ==
  IF 0 < Len(path) /\ Len(path) < DIRSIZ
    THEN [ok |-> TRUE, name |-> path]
    ELSE [ok |-> FALSE, name |-> <<>>]

\* IData::dirlookup, its loop from entry `off` on; de carries over from one
\* iteration to the next
RECURSIVE dirlookup_from(_, _, _, _, _)
dirlookup_from(blks, size, name, off, de) ==
  IF off >= size THEN [st |-> "none", inum |-> 0, off |-> 0]
  ELSE
    LET r == IData_read(blks, size, off, 1, <<de>>)
    IN  IF r.st # "ok" THEN [st |-> "panic", inum |-> 0, off |-> off]
        ELSE IF r.dst[1].inum # 0 /\ name = Trim(r.dst[1].name)
          THEN [st |-> "found", inum |-> r.dst[1].inum, off |-> off]
          ELSE dirlookup_from(blks, size, name, off + 1, r.dst[1])

dirlookup(blks, size, name) == dirlookup_from(blks, size, name, 0, ZeroEnt)

\* IData::dirlink, its search for an empty dirent: offset is advanced
\* before the test of de.inum
RECURSIVE empty_dirent(_, _, _, _, _)
empty_dirent(blks, size, off, offset, de) ==
  IF off >= size THEN [st |-> "ok", offset |-> offset, de |-> de]
  ELSE
    LET r == IData_read(blks, size, off, 1, <<de>>)
    IN  IF r.st # "ok" THEN [st |-> "panic", offset |-> offset, de |-> de]
        ELSE IF r.dst[1].inum = 0
          THEN [st |-> "ok", offset |-> offset + 1, de |-> r.dst[1]]
          ELSE empty_dirent(blks, size, off + 1, offset + 1, r.dst[1])

\* IData::dirlink
dirlink(blks, size, name, inum) ==
  LET same == [st |-> "err", blks |-> blks, size |-> size]
      look == dirlookup(blks, size, name)
  IN  IF look.st = "panic" THEN [same EXCEPT !.st = "panic"]
      ELSE IF look.st = "found" THEN same
      ELSE
        LET slot == empty_dirent(blks, size, 0, 0, ZeroEnt)
        IN  IF slot.st = "panic" THEN [same EXCEPT !.st = "panic"]
            \* name.as_bytes()[0..DIRSIZ]: range end past the end of the name
            ELSE IF Len(name) < DIRSIZ THEN [same EXCEPT !.st = "panic"]
            ELSE
              LET de == [inum |-> inum, name |-> SubSeq(name, 1, DIRSIZ)]
                  w  == IData_write(blks, size, slot.offset, <<de>>)
              IN  IF w.st # "ok" THEN [same EXCEPT !.st = "panic", !.blks = w.blks]
                  ELSE [st |-> "ok", blks |-> w.blks, size |-> w.size]

\* fs::link(old, new): the whole function; its result and the new state
fs_link(old, new) ==
  LET same == [st |-> "err", blks |-> dents, size |-> dsize, nlink |-> nlink]
      o    == skip_elem(old)
      ip   == dirlookup(dents, dsize, o.name)
      n    == skip_elem(new)
  IN  IF ~o.ok THEN same
      ELSE IF ip.st = "panic" THEN [same EXCEPT !.st = "panic"]
      ELSE IF ip.st = "none" THEN same
      ELSE IF ip.inum = ROOTINO THEN same
      ELSE IF ~n.ok THEN same
      ELSE
        LET d == dirlink(dents, dsize, n.name, ip.inum)
        IN  IF d.st # "ok" THEN [same EXCEPT !.st = d.st, !.blks = d.blks]
            ELSE [st |-> "ok", blks |-> d.blks, size |-> d.size,
                  nlink |-> [nlink EXCEPT ![ip.inum] = nlink[ip.inum] + 1]]

\* fs::unlink(path): the whole function
fs_unlink(path) ==
  LET same == [st |-> "err", blks |-> dents, size |-> dsize, nlink |-> nlink]
      n    == skip_elem(path)
      ip   == dirlookup(dents, dsize, n.name)
  IN  IF ~n.ok THEN same
      ELSE IF n.name = Dot \/ n.name = DotDot THEN same
      ELSE IF ip.st = "panic" THEN [same EXCEPT !.st = "panic"]
      ELSE IF ip.st = "none" THEN same
      ELSE IF nlink[ip.inum] < 1 THEN [same EXCEPT !.st = "panic"]
      ELSE IF ip.inum = ROOTINO THEN same
      ELSE
        LET w == IData_write(dents, dsize, ip.off, <<ZeroEnt>>)
        IN  IF w.st # "ok" THEN [same EXCEPT !.st = "panic", !.blks = w.blks]
            ELSE [st |-> "ok", blks |-> w.blks, size |-> w.size,
                  nlink |-> [nlink EXCEPT ![ip.inum] = nlink[ip.inum] - 1]]

\* the names of a directory: what each in-use entry maps its name to
NamesOf(blks, size) ==
  {<<Trim(blks[bmap(k \div BSIZE)][(k % BSIZE) + 1].name),
     blks[bmap(k \div BSIZE)][(k % BSIZE) + 1].inum>> :
     k \in {j \in 0..(size - 1) : blks[bmap(j \div BSIZE)][(j % BSIZE) + 1].inum # 0}}

FileNames == {<<97>>, <<98>>, <<99>>}
FileEnts ==
  {[inum |-> k, name |-> Pad(nm)] : k \in Inums \ {ROOTINO}, nm \in FileNames}

\* a directory as the file system can hold it: "." and ".." first, then
\* files under distinct names or free entries; link counts as the entries say
InitDir ==
  /\ LogIdle /\ SysIdle /\ IoIdle /\ VmIdle /\ ProcIdle /\ AllocIdle /\ UvmIdle /\ PipeIdle /\ BioIdle /\ TailIdle
  /\ \E sz \in 2..DIRMAX : \E f \in [3..sz -> FileEnts \cup {ZeroEnt}] :
       /\ \A i, j \in 3..sz : (i # j /\ f[i].inum # 0 /\ f[j].inum # 0)
                                => f[i].name # f[j].name
       /\ dsize = sz
       /\ dents = [b \in 1..MAXFILE |-> [i \in 1..BSIZE |->
                     LET k == (b - 1) * BSIZE + i
                     IN  IF k >= 3 /\ k <= sz THEN f[k] ELSE EmptyDir[b][i]]]
       /\ nlink = [n \in Inums |->
                     IF n = ROOTINO THEN 1
                     ELSE Cardinality({i \in 3..sz : f[i].inum = n})]
  /\ names0 = NamesOf(dents, dsize)
  /\ nlink0 = nlink
  /\ lcall = NoCall
  /\ ucall = "none"

\* the system call link(old, new)
link(old, new) ==
  /\ lcall.st = "none"
  /\ LET r == fs_link(old, new)
     IN  /\ dents' = r.blks /\ dsize' = r.size /\ nlink' = r.nlink
         /\ lcall' = [old |-> old, new |-> new, st |-> r.st]
  /\ UNCHANGED <<names0, nlink0, ucall>>
  /\ UNCHANGED notDir

\* the system call unlink(new) that follows it
unlink ==
  /\ lcall.st \in {"ok", "err"} /\ ucall = "none"
  /\ LET r == fs_unlink(lcall.new)
     IN  /\ dents' = r.blks /\ dsize' = r.size /\ nlink' = r.nlink
         /\ ucall' = r.st
  /\ UNCHANGED <<names0, nlink0, lcall>>
  /\ UNCHANGED notDir

NextDir ==
  \/ \E old \in FileNames, new \in FileNames : link(old, new)
  \/ unlink

SpecDir == InitDir /\ [][NextDir]_vars

\* link(a, b) is called with a naming a file and b a free name
LinkApplies ==
  /\ lcall.st # "none"
  /\ \E e \in names0 : e[1] = lcall.old /\ e[2] # ROOTINO
  /\ ~\E e \in names0 : e[1] = lcall.new

\* C7: link(a, b) followed by unlink(b) leaves the file system as it was
\* before the link: both calls complete, the same names map to the same
\* inode numbers and every inode has the same link count.
C7_LinkUnlink ==
  LinkApplies =>
    /\ lcall.st = "ok"
    /\ ucall # "none" =>
         (ucall = "ok" /\ NamesOf(dents, dsize) = names0 /\ nlink = nlink0)

(***************************************************************************)
(* fork: Uvm::copy of the parent's pages into the child, for a fork whose  *)
(* alloc_proc has returned a process slot.  The kernel heap is the global  *)
(* allocator's: an allocation of one word may land at any free word of a   *)
(* heap frame.                                                             *)
(***************************************************************************)
\* PTE flags of user pages: V|R|W|U and V|R|X|U
UserFlags == {23, 27}
\* the word-sized chunks the heap can hand out: <<frame, word index>>
Chunks == HeapFrames \X (1..PGWORDS)
NoMem == <<0, 0>>

\* Uvm::copy from page i on, given what the allocator answers for each
\* page: Box::<Uvm>::try_new_zeroed() yields a chunk of one word, the first
\* word of the parent's page is stored there, and mappages maps the page
\* to the frame that holds the chunk with the parent's flags
RECURSIVE uvm_copy(_, _, _, _)
uvm_copy(i, m, new, chunks) ==
  IF i > Len(ppt) THEN [st |-> "ok", mem |-> m, new |-> new]
  ELSE IF chunks[i] = NoMem
    \* allocation or mappages failed: new.unmap(0, va / PGSIZE, true)
    THEN [st |-> "err", mem |-> m, new |-> <<>>]
    ELSE
      LET f == chunks[i][1]
          o == chunks[i][2]
      IN  uvm_copy(i + 1,
                   [m EXCEPT ![f][o] = m[ppt[i].frame][1]],
                   Append(new, [frame |-> f, flags |-> ppt[i].flags]),
                   chunks)

\* a parent with one or more pages of its own, anything in memory
InitVm ==
  /\ LogIdle /\ SysIdle /\ IoIdle /\ DirIdle /\ ProcIdle /\ AllocIdle /\ UvmIdle /\ PipeIdle /\ BioIdle /\ TailIdle
  /\ \E sz \in 1..NPAGES :
       /\ ppt \in [1..sz -> [frame : 1..NPAGES, flags : UserFlags]]
       /\ \A i \in 1..sz : ppt[i].frame = i
  /\ mem \in [Frames -> [1..PGWORDS -> Values]]
  /\ \A f \in 1..NPAGES : f > Len(ppt) => mem[f] = ZeroPage
  /\ cpt = <<>>
  /\ ptf \in [a0 : Values, epc : Values]
  /\ ctf = ZeroTrapframe
  /\ fres = "none"

\* Proc::fork after alloc_proc: copy the user memory, then the trapframe
\* with a0 = 0
fork(chunks) ==
  /\ fres = "none"
  /\ \A i, j \in 1..Len(ppt) :
       (i # j /\ chunks[i] # NoMem) => chunks[i] # chunks[j]
  /\ LET c == uvm_copy(1, mem, <<>>, chunks)
     IN  /\ mem' = c.mem
         /\ cpt' = c.new
         /\ fres' = c.st
         /\ ctf' = IF c.st = "ok" THEN [ptf EXCEPT !.a0 = 0] ELSE ctf
  /\ UNCHANGED <<ppt, ptf>>
  /\ UNCHANGED notVm

NextVm ==
  \E chunks \in [1..Len(ppt) -> Chunks \cup {NoMem}] : fork(chunks)

SpecVm == InitVm /\ [][NextVm]_vars

\* C8: after a successful fork every page of the parent in [0, sz) is
\* mapped in the child at the same address with the same flags, in a frame
\* of its own (not the parent's, not another page's) whose contents equal
\* the parent's page.
C8_ForkCopies ==
  fres = "ok" =>
    /\ Len(cpt) = Len(ppt)
    /\ \A i \in 1..Len(ppt) :
         /\ cpt[i].flags = ppt[i].flags
         /\ \A j \in 1..Len(ppt) : cpt[i].frame # ppt[j].frame
         /\ \A j \in 1..Len(ppt) : j # i => cpt[i].frame # cpt[j].frame
         /\ mem[cpt[i].frame] = mem[ppt[i].frame]

(***************************************************************************)
(* Processes: exit, wait, sleep and wakeup (proc.rs).  A channel is the    *)
(* address of a Proc, written as its slot.  Each step below takes the      *)
(* spin locks where the code takes them, so a step that needs a lock       *)
(* another thread holds is not enabled.                                    *)
(***************************************************************************)
\* a wakeup that wakes no one
wakeup_none(st, ch, c, me) == st

\* Procs::wakeup(chan) run by "me": every other slot that is SLEEPING on
\* chan becomes RUNNABLE
wakeup_chan(st, ch, c, me) ==
  [p \in Procs |->
     IF p # me /\ st[p] = "SLEEPING" /\ ch[p] = c THEN "RUNNABLE" ELSE st[p]]

\* Procs::reparent(p): p's children are given to init
reparent_none(par, p) == par

reparent(par, p) ==
  [pp \in Procs |-> IF par[pp] = p THEN INITPROC ELSE par[pp]]

Children(p) == {c \in Procs : parent[c] = p}
Zombies(p) == {c \in Children(p) : pstate[c] = "ZOMBIE"}
\* the first ZOMBIE child in pool order
FirstZombie(p) == CHOOSE c \in Zombies(p) : \A d \in Zombies(p) : c <= d
\* the children whose lock wait's scan takes: all of them, or those up to
\* the first ZOMBIE, where the scan returns
Scanned(p) ==
  IF Zombies(p) = {} THEN Children(p)
  ELSE {c \in Children(p) : c <= FirstZombie(p)}

\* the other slots, whose locks wakeup takes
Others(p) == Procs \ {p}

\* a tree of processes under init, each running in user space
InitProc ==
  /\ LogIdle /\ SysIdle /\ IoIdle /\ DirIdle /\ VmIdle
  /\ nextid = NPROC /\ aret = NoAlloc /\ UvmIdle /\ PipeIdle /\ BioIdle /\ TailIdle
  /\ pstate = [p \in Procs |-> "RUNNING"]
  /\ chan = [p \in Procs |-> 0]
  /\ killed = [p \in Procs |-> FALSE]
  /\ xstate = [p \in Procs |-> 0]
  /\ pid = [p \in Procs |-> p - 1]
  /\ parent \in [Procs -> 0..NPROC]
  /\ parent[INITPROC] = 0
  /\ \A p \in Others(INITPROC) : parent[p] \in 1..(p - 1)
  /\ plock = [p \in Procs |-> FALSE]
  /\ wlock = 0
  /\ ppc = [p \in Procs |-> "user"]
  /\ havekids = [p \in Procs |-> FALSE]
  /\ umem = [p \in Procs |-> 0]
  /\ wret = [p \in Procs |-> NoWait]
  /\ estatus = [p \in Procs |-> 0]

\* a process in user space calls wait(addr); usertrap lets the system
\* call through when the process is not killed
call_wait(p) ==
  /\ ppc[p] = "user"
  /\ ~killed[p]
  /\ ppc' = [ppc EXCEPT ![p] = "wait"]
  /\ havekids' = [havekids EXCEPT ![p] = FALSE]
  /\ wret' = [wret EXCEPT ![p] = NoWait]
  /\ UNCHANGED <<estatus, pstate, chan, killed, xstate, pid, parent, plock, wlock,
                 umem>>
  /\ UNCHANGED notProc

\* wait: the head of the loop, PROCS.wait_lock.lock()
wait_lock(p) ==
  /\ ppc[p] = "wait"
  /\ wlock = 0
  /\ wlock' = p
  /\ ppc' = [ppc EXCEPT ![p] = "wait_scan"]
  /\ UNCHANGED <<estatus, pstate, chan, killed, xstate, pid, parent, plock, havekids,
                 umem, wret>>
  /\ UNCHANGED notProc

\* wait: the scan of the pool under wait_lock, and what follows it.  A
\* ZOMBIE child's status is copied out through the child's own uvm
\* (np_data.uvm), which free_proc then frees; "ok" is whether that copyout
\* succeeds
wait_scan(p, ok) ==
  /\ ppc[p] = "wait_scan"
  /\ \A c \in Scanned(p) : ~plock[c]
  /\ IF Zombies(p) # {}
     THEN
       LET c == FirstZombie(p)
           found == [slot |-> c, pid |-> pid[c], xs |-> xstate[c]]
       IN  /\ wlock' = 0
           /\ havekids' = [havekids EXCEPT ![p] = FALSE]
           /\ IF ok
              THEN \* copyout, free_proc(np_guard), return Some(pid)
                /\ umem' = [[umem EXCEPT ![c] = xstate[c]] EXCEPT ![c] = 0]
                /\ pstate' = [pstate EXCEPT ![c] = "UNUSED"]
                /\ pid' = [pid EXCEPT ![c] = 0]
                /\ parent' = [parent EXCEPT ![c] = 0]
                /\ chan' = [chan EXCEPT ![c] = 0]
                /\ killed' = [killed EXCEPT ![c] = FALSE]
                /\ xstate' = [xstate EXCEPT ![c] = 0]
                /\ ppc' = [ppc EXCEPT ![p] = "user", ![c] = "unused"]
                /\ wret' = [wret EXCEPT ![p] =
                              [slot |-> c, pid |-> pid[c], xs |-> xstate[c],
                               ret |-> pid[c]]]
              ELSE \* return None
                /\ ppc' = [ppc EXCEPT ![p] = "user"]
                /\ wret' = [wret EXCEPT ![p] =
                              [slot |-> c, pid |-> pid[c], xs |-> xstate[c],
                               ret |-> 0]]
                /\ UNCHANGED <<umem, pstate, pid, parent, chan, killed,
                               xstate>>
           /\ UNCHANGED <<plock, estatus>>
     ELSE
       LET hk == havekids[p] \/ Children(p) # {}
       IN  IF ~hk \/ killed[p]
           THEN \* no point waiting: break None
             /\ hk => ~plock[p]
             /\ wlock' = 0
             /\ havekids' = [havekids EXCEPT ![p] = FALSE]
             /\ ppc' = [ppc EXCEPT ![p] = "user"]
             /\ UNCHANGED <<estatus, pstate, chan, killed, xstate, pid, parent,
                            plock, umem, wret>>
           ELSE \* go on to self.sleep(self, wait_guard)
             /\ ~plock[p]
             /\ havekids' = [havekids EXCEPT ![p] = hk]
             /\ ppc' = [ppc EXCEPT ![p] = "wait_sleep"]
             /\ UNCHANGED <<estatus, pstate, chan, killed, xstate, pid, parent,
                            plock, wlock, umem, wret>>
  /\ UNCHANGED notProc

\* Proc::sleep up to the context switch: take the own "proc" lock, release
\* wait_lock, set chan and SLEEPING, and sched() into the scheduler
sleep(p) ==
  /\ ppc[p] = "wait_sleep"
  /\ ~plock[p]
  /\ plock' = [plock EXCEPT ![p] = TRUE]
  /\ wlock' = 0
  /\ chan' = [chan EXCEPT ![p] = p]
  /\ pstate' = [pstate EXCEPT ![p] = "SLEEPING"]
  /\ ppc' = [ppc EXCEPT ![p] = "sleep_swtch"]
  /\ UNCHANGED <<estatus, killed, xstate, pid, parent, havekids, umem, wret>>
  /\ UNCHANGED notProc

\* the scheduler, when a process has switched into it: the slot's lock is
\* still held; clear current and release it
scheduler_release(p) ==
  /\ ppc[p] \in {"sleep_swtch", "exit_swtch", "recv_swtch"}
  /\ plock[p]
  /\ plock' = [plock EXCEPT ![p] = FALSE]
  /\ ppc' = [ppc EXCEPT ![p] =
               IF ppc[p] = "sleep_swtch" THEN "asleep"
               ELSE IF ppc[p] = "recv_swtch" THEN "recv_asleep"
               ELSE "zombie"]
  /\ UNCHANGED <<estatus, pstate, chan, killed, xstate, pid, parent, wlock, havekids,
                 umem, wret>>
  /\ UNCHANGED notProc

\* the scheduler's loop at slot p: take its lock; if RUNNABLE, make it
\* RUNNING and switch into it, where it returns from sched() in sleep
scheduler_run(p) ==
  /\ ppc[p] \in {"asleep", "recv_asleep"}
  /\ ~plock[p]
  /\ pstate[p] = "RUNNABLE"
  /\ plock' = [plock EXCEPT ![p] = TRUE]
  /\ pstate' = [pstate EXCEPT ![p] = "RUNNING"]
  /\ ppc' = [ppc EXCEPT ![p] =
               IF ppc[p] = "asleep" THEN "sleep_tidy" ELSE "recv_tidy"]
  /\ UNCHANGED <<estatus, chan, killed, xstate, pid, parent, wlock, havekids, umem,
                 wret>>
  /\ UNCHANGED notProc

\* Proc::sleep after sched() returns: chan = 0 and the "proc" lock dropped
sleep_tidy(p) ==
  /\ ppc[p] = "sleep_tidy"
  /\ chan' = [chan EXCEPT ![p] = 0]
  /\ plock' = [plock EXCEPT ![p] = FALSE]
  /\ ppc' = [ppc EXCEPT ![p] = "sleep_relock"]
  /\ UNCHANGED <<estatus, pstate, killed, xstate, pid, parent, wlock, havekids, umem,
                 wret>>
  /\ UNCHANGED notProc

\* Proc::sleep's mutex.lock(): wait_lock is taken again, and wait drops the
\* returned guard at once and goes round its loop
sleep_relock(p) ==
  /\ ppc[p] = "sleep_relock"
  /\ wlock = 0
  /\ ppc' = [ppc EXCEPT ![p] = "wait"]
  /\ UNCHANGED <<estatus, pstate, chan, killed, xstate, pid, parent, plock, wlock,
                 havekids, umem, wret>>
  /\ UNCHANGED notProc

\* a process other than init calls exit(status); its open files are taken
call_exit(p, status) ==
  /\ p # INITPROC
  /\ ppc[p] = "user"
  /\ ~killed[p]
  /\ ppc' = [ppc EXCEPT ![p] = "exit"]
  /\ estatus' = [estatus EXCEPT ![p] = status]
  /\ UNCHANGED <<pstate, chan, killed, xstate, pid, parent, plock, wlock,
                 havekids, umem, wret>>
  /\ UNCHANGED notProc

\* exit: PROCS.wait_lock.lock()
exit_lock(p) ==
  /\ ppc[p] = "exit"
  /\ wlock = 0
  /\ wlock' = p
  /\ ppc' = [ppc EXCEPT ![p] = "exit_reparent"]
  /\ UNCHANGED <<estatus, pstate, chan, killed, xstate, pid, parent, plock, havekids,
                 umem, wret>>
  /\ UNCHANGED notProc

\* exit: PROCS.reparent(self), which wakes init for each child given to
\* it, then PROCS.wakeup(parent)
exit_reparent(p) ==
  /\ ppc[p] = "exit_reparent"
  /\ \A q \in Others(p) : ~plock[q]
  /\ parent' = reparent(parent, p)
  /\ LET st == IF Children(p) # {}
               THEN wakeup_chan(pstate, chan, INITPROC, p)
               ELSE pstate
     IN  pstate' = wakeup_chan(st, chan, parent[p], p)
  /\ ppc' = [ppc EXCEPT ![p] = "exit_zombie"]
  /\ UNCHANGED <<estatus, chan, killed, xstate, pid, plock, wlock, havekids, umem,
                 wret>>
  /\ UNCHANGED notProc

\* exit: take the own "proc" lock, set xstate and ZOMBIE, drop wait_lock
\* and sched() into the scheduler for good
exit_zombie(p) ==
  /\ ppc[p] = "exit_zombie"
  /\ ~plock[p]
  /\ plock' = [plock EXCEPT ![p] = TRUE]
  /\ xstate' = [xstate EXCEPT ![p] = estatus[p]]
  /\ estatus' = [estatus EXCEPT ![p] = 0]
  /\ pstate' = [pstate EXCEPT ![p] = "ZOMBIE"]
  /\ wlock' = 0
  /\ ppc' = [ppc EXCEPT ![p] = "exit_swtch"]
  /\ UNCHANGED <<chan, killed, pid, parent, havekids, umem, wret>>
  /\ UNCHANGED notProc

\* the channel of the condvar of a pipe, which is no process's address
PipeChan == NPROC + 1

\* a process reads from a pipe that holds nothing: SyncReceiver::recv
\* finds pop_front() None
call_recv(p) ==
  /\ ppc[p] = "user"
  /\ ~killed[p]
  /\ ppc' = [ppc EXCEPT ![p] = "recv"]
  /\ UNCHANGED <<estatus, pstate, chan, killed, xstate, pid, parent, plock,
                 wlock, havekids, umem, wret>>
  /\ UNCHANGED notProc

\* recv: self.cond.wait(buf), that is Proc::sleep(cond, buf) up to the
\* context switch
recv_sleep(p) ==
  /\ ppc[p] = "recv"
  /\ ~plock[p]
  /\ plock' = [plock EXCEPT ![p] = TRUE]
  /\ chan' = [chan EXCEPT ![p] = PipeChan]
  /\ pstate' = [pstate EXCEPT ![p] = "SLEEPING"]
  /\ ppc' = [ppc EXCEPT ![p] = "recv_swtch"]
  /\ UNCHANGED <<estatus, killed, xstate, pid, parent, wlock, havekids, umem,
                 wret>>
  /\ UNCHANGED notProc

\* recv after sched() returns: Proc::sleep clears chan, drops the "proc"
\* lock and takes the buffer's mutex again, and recv goes round its loop
recv_tidy(p) ==
  /\ ppc[p] = "recv_tidy"
  /\ chan' = [chan EXCEPT ![p] = 0]
  /\ plock' = [plock EXCEPT ![p] = FALSE]
  /\ ppc' = [ppc EXCEPT ![p] = "recv"]
  /\ UNCHANGED <<estatus, pstate, killed, xstate, pid, parent, wlock,
                 havekids, umem, wret>>
  /\ UNCHANGED notProc

\* the slot Procs::kill(target) stops at: the first in pool order whose
\* pid is target
KillSlot(target) ==
  CHOOSE m \in Procs :
    pid[m] = target /\ \A q \in Procs : pid[q] = target => m <= q

\* a process calls kill(target) for the pid of a process other than init:
\* the slots are locked in pool order up to the one with that pid, which
\* is marked killed and, if SLEEPING, made RUNNABLE
kill(p, target) ==
  /\ ppc[p] = "user"
  /\ ~killed[p]
  /\ \E m \in Others(INITPROC) : pid[m] = target
  /\ LET m == KillSlot(target)
     IN  /\ \A q \in Procs : q <= m => ~plock[q]
         /\ killed' = [killed EXCEPT ![m] = TRUE]
         /\ pstate' = [pstate EXCEPT ![m] =
                         IF pstate[m] = "SLEEPING" THEN "RUNNABLE"
                         ELSE pstate[m]]
  /\ UNCHANGED <<estatus, chan, xstate, pid, parent, plock, wlock, ppc,
                 havekids, umem, wret>>
  /\ UNCHANGED notProc

\* usertrap of a process that is killed, at a system call's entry or
\* before the return to user space: p.exit(-1)
usertrap_killed(p) ==
  /\ ppc[p] = "user"
  /\ ~plock[p]
  /\ killed[p]
  /\ ppc' = [ppc EXCEPT ![p] = "exit"]
  /\ estatus' = [estatus EXCEPT ![p] = -1]
  /\ UNCHANGED <<pstate, chan, killed, xstate, pid, parent, plock, wlock,
                 havekids, umem, wret>>
  /\ UNCHANGED notProc

\* the steps of p's kernel thread once it is in wait or exit
KernelStep(p) ==
  \/ recv_sleep(p)
  \/ recv_tidy(p)
  \/ usertrap_killed(p)
  \/ wait_lock(p)
  \/ \E ok \in BOOLEAN : wait_scan(p, ok)
  \/ sleep(p)
  \/ sleep_tidy(p)
  \/ sleep_relock(p)
  \/ exit_lock(p)
  \/ exit_reparent(p)
  \/ exit_zombie(p)

NextProc ==
  \E p \in Procs :
    \/ call_wait(p)
    \/ \E status \in Values : call_exit(p, status)
    \/ call_recv(p)
    \/ \E target \in Procs : kill(p, target)
    \/ KernelStep(p)
    \/ scheduler_release(p)
    \/ scheduler_run(p)

SpecProc == InitProc /\ [][NextProc]_vars

\* a hart in the kernel keeps running its thread, a hart spinning on a
\* lock gets it if it is free again and again, and the scheduler's loop
\* keeps visiting every slot
SpecProcFair ==
  /\ SpecProc
  /\ \A p \in Procs :
       /\ SF_vars(KernelStep(p))
       /\ WF_vars(scheduler_release(p))
       /\ WF_vars(scheduler_run(p))

\* C9: when wait has found a ZOMBIE child and returned its pid, the child's
\* exit status is in the caller's memory at addr, the child's slot is
\* UNUSED, and the value returned is the child's pid.
C9_WaitReaps ==
  \A p \in Procs :
    wret[p].ret # 0 =>
      /\ wret[p].ret = wret[p].pid
      /\ pstate[wret[p].slot] = "UNUSED"
      /\ umem[p] = wret[p].xs

\* p is in wait: called, and not yet returned
InWait(p) ==
  ppc[p] \in {"wait", "wait_scan", "wait_sleep", "sleep_swtch", "asleep",
              "sleep_tidy", "sleep_relock"}

\* C10: whenever a child is ZOMBIE while its parent is in or entering
\* wait, the parent's wait eventually returns.
C10_WaitWoken ==
  \A p \in Procs :
    (InWait(p) /\ \E c \in Procs : pstate[c] = "ZOMBIE" /\ parent[c] = p)
      ~> ~InWait(p)

\* a parent that went to sleep in wait has been made RUNNABLE by the exit
\* of a child that is now ZOMBIE
C10_Witness ==
  \E p \in Procs : \E c \in Procs :
    /\ pstate[c] = "ZOMBIE" /\ parent[c] = p
    /\ ppc[p] = "asleep" /\ pstate[p] = "RUNNABLE"

\* p is a live process that is not already in exit
Live(p) ==
  ppc[p] \notin {"unused", "exit", "exit_reparent", "exit_zombie",
                 "exit_swtch", "zombie"}

\* C33: exit hands every child of the exiting process to init before the
\* process becomes ZOMBIE: no process in a used slot has a parent that is
\* ZOMBIE or whose slot is free, and a process past reparent has no child
C33_ChildrenReparented ==
  /\ \A c \in Procs :
       (pstate[c] # "UNUSED" /\ parent[c] # 0)
         => pstate[parent[c]] \notin {"UNUSED", "ZOMBIE"}
  /\ \A p \in Procs :
       ppc[p] \in {"exit_zombie", "exit_swtch"} => Children(p) = {}

\* process 2 has exited while process 3 lives on as a child of init
C33_Witness ==
  /\ pstate[2] = "ZOMBIE"
  /\ pstate[3] # "UNUSED"
  /\ parent[3] = INITPROC


\* C11: a live process whose killed flag is set eventually exits with
\* status -1.
C11_KilledExits ==
  \A p \in Procs :
    (killed[p] /\ Live(p)) ~> (pstate[p] = "ZOMBIE" /\ xstate[p] = -1)

(***************************************************************************)
(* Procs::alloc_proc (proc.rs), called by fork and user_init, on a process *)
(* table in any state.                                                     *)
(***************************************************************************)
ProcStates == {"UNUSED", "USED", "SLEEPING", "RUNNABLE", "RUNNING", "ZOMBIE"}

InitAlloc ==
  /\ LogIdle /\ SysIdle /\ IoIdle /\ DirIdle /\ VmIdle /\ UvmIdle /\ PipeIdle /\ BioIdle /\ TailIdle
  /\ pstate \in [Procs -> ProcStates]
  /\ chan = [p \in Procs |-> 0]
  /\ killed = [p \in Procs |-> FALSE]
  /\ xstate = [p \in Procs |-> 0]
  /\ pid = [p \in Procs |-> IF pstate[p] = "UNUSED" THEN 0 ELSE p - 1]
  /\ parent = [p \in Procs |-> 0]
  /\ plock = [p \in Procs |-> FALSE]
  /\ wlock = 0
  /\ ppc = [p \in Procs |-> IF pstate[p] = "UNUSED" THEN "unused" ELSE "user"]
  /\ havekids = [p \in Procs |-> FALSE]
  /\ umem = [p \in Procs |-> 0]
  /\ wret = [p \in Procs |-> NoWait]
  /\ estatus = [p \in Procs |-> 0]
  /\ nextid = NPROC
  /\ aret = NoAlloc

\* alloc_proc: the loop over pool.iter() returns in its first pass, from
\* either arm of the match on the first slot's state.  tfok and uvmok say
\* whether the trapframe page and the page table can be allocated
alloc_proc(tfok, uvmok) ==
  /\ ~aret.called
  /\ LET p == 1
         call == [called |-> TRUE, memok |-> tfok /\ uvmok,
                  hadfree |-> \E q \in Procs : pstate[q] = "UNUSED",
                  slot |-> 0]
     IN  /\ ~plock[p]
         /\ IF pstate[p] = "UNUSED"
            THEN
              /\ nextid' = nextid + 1
              /\ IF tfok /\ uvmok
                 THEN \* return Some((p, lock))
                   /\ pid' = [pid EXCEPT ![p] = nextid]
                   /\ pstate' = [pstate EXCEPT ![p] = "USED"]
                   /\ plock' = [plock EXCEPT ![p] = TRUE]
                   /\ aret' = [call EXCEPT !.slot = p]
                 ELSE \* p.free_proc(lock); return None
                   /\ aret' = call
                   /\ UNCHANGED <<pid, pstate, plock>>
            ELSE \* _ => return None
              /\ aret' = call
              /\ UNCHANGED <<nextid, pid, pstate, plock>>
  /\ UNCHANGED <<chan, killed, xstate, parent, wlock, ppc, havekids, umem,
                 wret, estatus>>
  /\ UNCHANGED notAlloc

NextAlloc == \E tfok \in BOOLEAN, uvmok \in BOOLEAN : alloc_proc(tfok, uvmok)

SpecAlloc == InitAlloc /\ [][NextAlloc]_vars

\* C12: if some slot is UNUSED and the allocations succeed, alloc_proc
\* returns a slot, in state USED with its lock held.
C12_AllocFindsFree ==
  (aret.called /\ aret.hadfree /\ aret.memok) =>
    /\ aret.slot # 0
    /\ pstate[aret.slot] = "USED"
    /\ plock[aret.slot]

(***************************************************************************)
(* A user page table under sbrk and exec (vm.rs, proc.rs, exec.rs).  The   *)
(* three levels of the table are flattened to page number -> leaf PTE;     *)
(* page NUPAGES is the trapframe and page NUPAGES + 1 the trampoline.      *)
(***************************************************************************)
\* the flag bits of a Sv39 PTE
PteBit == [V |-> 1, R |-> 2, W |-> 4, X |-> 8, U |-> 16]
PTE_V == PteBit.V
PTE_R == PteBit.R
PTE_W == PteBit.W
PTE_X == PteBit.X
PTE_U == PteBit.U
Has(f, b) == (f \div b) % 2 = 1
\* a | b on flags
Or(a, b) ==
  LET bit(k) == IF Has(a, k) \/ Has(b, k) THEN k ELSE 0
  IN  bit(PTE_V) + bit(PTE_R) + bit(PTE_W) + bit(PTE_X) + bit(PTE_U)
\* a & !b on flags
AndNot(a, b) ==
  LET bit(k) == IF Has(a, k) /\ ~Has(b, k) THEN k ELSE 0
  IN  bit(PTE_V) + bit(PTE_R) + bit(PTE_W) + bit(PTE_X) + bit(PTE_U)

is_v(pte) == Has(pte.flags, PTE_V)
is_u(pte) == Has(pte.flags, PTE_U)
is_leaf(pte) == pte.flags # PTE_V

TRAPFLAME == NUPAGES
TRAMPOLINE == NUPAGES + 1
UPages == 0..(NUPAGES - 1)
PageFrames == 1..NFRAMES
\* the frames of the trampoline code and of the process's trapframe
TrampolineFrame == NFRAMES + 1
TrapframeFrame == NFRAMES + 2

pgroundup(sz) == ((sz + PGSZ - 1) \div PGSZ) * PGSZ

\* Box::<Page>::try_new_zeroed(): a frame that is not allocated, 0 if none
NewFrame(fr) ==
  IF PageFrames \ fr = {} THEN 0
  ELSE CHOOSE f \in PageFrames \ fr : \A g \in PageFrames \ fr : f <= g

\* Uvm::unmap(va, npages, do_free) at page number v: every page must be a
\* valid leaf; its frame is freed if do_free and its PTE is zeroed
unmap(pt, fr, v, npages, do_free) ==
  LET range == v..(v + npages - 1)
  IN  IF \E a \in range : ~is_v(pt[a]) \/ ~is_leaf(pt[a])
      THEN [st |-> "panic", pt |-> pt, fr |-> fr]
      ELSE [st |-> "ok",
            pt |-> [a \in PageNos |-> IF a \in range THEN NoPte ELSE pt[a]],
            fr |-> IF do_free THEN fr \ {pt[a].pa : a \in range} ELSE fr]

\* a dealloc that frees nothing
dealloc_none(pt, fr, oldsz, newsz) ==
  [st |-> "ok", pt |-> pt, fr |-> fr,
   sz |-> IF newsz >= oldsz THEN oldsz ELSE newsz]

\* Uvm::dealloc(oldsz, newsz)
dealloc(pt, fr, oldsz, newsz) ==
  IF newsz >= oldsz THEN [st |-> "ok", pt |-> pt, fr |-> fr, sz |-> oldsz]
  ELSE IF pgroundup(newsz) < pgroundup(oldsz)
    THEN LET u == unmap(pt, fr, pgroundup(newsz) \div PGSZ,
                        (pgroundup(oldsz) - pgroundup(newsz)) \div PGSZ, TRUE)
         IN  [st |-> u.st, pt |-> u.pt, fr |-> u.fr, sz |-> newsz]
    ELSE [st |-> "ok", pt |-> pt, fr |-> fr, sz |-> newsz]

\* no allocation fails
NoFail == [at |-> -1, how |-> "none"]
\* the ways an alloc can fail at a page: no page frame, or no page-table
\* page for mappages
Fails == {NoFail} \cup [at : UPages, how : {"page", "map"}]

alloc_perm_no_u(xperm) == Or(Or(PTE_R, xperm), PTE_V)
\* the flags Uvm::alloc maps a page with: PTE_R | PTE_U | xperm
alloc_perm(xperm) == Or(Or(Or(PTE_R, PTE_U), xperm), PTE_V)

\* the loop of Uvm::alloc from address a on; oldsz is already rounded up
RECURSIVE alloc_loop(_, _, _, _, _, _, _)
alloc_loop(pt, fr, a, oldsz, newsz, xperm, fail) ==
  LET v == a \div PGSZ
      frame == NewFrame(fr)
      undo == dealloc(pt, fr, a, oldsz)
  IN  IF a >= newsz THEN [st |-> "ok", pt |-> pt, fr |-> fr]
      ELSE IF frame = 0 \/ fail = [at |-> v, how |-> "page"]
        THEN [st |-> IF undo.st = "ok" THEN "err" ELSE "panic",
              pt |-> undo.pt, fr |-> undo.fr]
      ELSE IF fail = [at |-> v, how |-> "map"]
        THEN \* the frame is dropped again
             [st |-> IF undo.st = "ok" THEN "err" ELSE "panic",
              pt |-> undo.pt, fr |-> undo.fr]
      ELSE IF is_v(pt[v])
        THEN \* mappages: remap
             [st |-> "panic", pt |-> pt, fr |-> fr]
      ELSE alloc_loop([pt EXCEPT ![v] =
                         [pa |-> frame,
                          flags |-> alloc_perm(xperm)]],
                      fr \cup {frame}, a + PGSZ, oldsz, newsz, xperm, fail)

\* Uvm::alloc(oldsz, newsz, xperm)
alloc(pt, fr, oldsz, newsz, xperm, fail) ==
  IF newsz < oldsz THEN [st |-> "ok", pt |-> pt, fr |-> fr, sz |-> oldsz]
  ELSE LET r == alloc_loop(pt, fr, pgroundup(oldsz), pgroundup(oldsz), newsz,
                           xperm, fail)
       IN  [st |-> r.st, pt |-> r.pt, fr |-> r.fr, sz |-> newsz]

\* Proc::proc_uvmcreate: the trampoline and the trapframe, not for users
proc_uvmcreate ==
  [v \in PageNos |->
     IF v = TRAMPOLINE
       THEN [pa |-> TrampolineFrame, flags |-> Or(Or(PTE_R, PTE_X), PTE_V)]
     ELSE IF v = TRAPFLAME
       THEN [pa |-> TrapframeFrame, flags |-> Or(Or(PTE_R, PTE_W), PTE_V)]
     ELSE NoPte]

\* a new process with no user memory
InitUvm ==
  /\ LogIdle /\ SysIdle /\ IoIdle /\ DirIdle /\ VmIdle /\ ProcIdle
  /\ AllocIdle /\ PipeIdle /\ BioIdle /\ TailIdle
  /\ upt = proc_uvmcreate
  /\ usz = 0
  /\ uframes = {}
  /\ uvcall = NoCallYet
  /\ upanic = FALSE
  /\ uguard = {}
  /\ ucpt = [v \in PageNos |-> NoPte]
  /\ ucguard = {}

\* sys_sbrk(n): grow_proc(n), returning the size before it.  A shrink to
\* below zero wraps to a huge newsz, which dealloc leaves alone
sys_sbrk(n, xperm, fail) ==
  /\ ~upanic
  /\ usz + n <= NUPAGES * PGSZ
  /\ LET r == IF n > 0 THEN alloc(upt, uframes, usz, usz + n, xperm, fail)
              ELSE IF n < 0 /\ usz + n >= 0
                THEN dealloc(upt, uframes, usz, usz + n)
              ELSE [st |-> "ok", pt |-> upt, fr |-> uframes, sz |-> usz]
     IN  /\ upt' = r.pt
         /\ uframes' = r.fr
         /\ usz' = IF r.st = "ok" THEN r.sz ELSE usz
         /\ upanic' = (r.st = "panic")
         /\ uvcall' = [op |-> "sbrk", n |-> n, st |-> r.st, ret |-> usz,
                       oldsz |-> usz, pt |-> upt, fr |-> uframes, fail |-> fail]
         /\ uguard' = {v \in uguard : is_v(r.pt[v])}
  /\ ucpt' = [v \in PageNos |-> NoPte] /\ ucguard' = {}
  /\ UNCHANGED notUvm

\* PageTableEntry::rm_u
rm_u(pte) == [pte EXCEPT !.flags = AndNot(@, PTE_U)]

\* Uvm::clear(va), on a page that is mapped
clear(pt, v) == [pt EXCEPT ![v] = rm_u(@)]

\* exec, its memory: a new page table, one segment of segsz bytes loaded at
\* 0 with the permissions of its program header, then two pages at the next
\* page boundary, the lower one cleared as the stack guard.  On success the
\* old image is freed; on failure the new one is.
exec(segsz, xperm, fail) ==
  /\ ~upanic
  /\ pgroundup(segsz) + 2 * PGSZ <= NUPAGES * PGSZ
  /\ LET seg == alloc(proc_uvmcreate, uframes, 0, segsz, xperm, fail)
         sz1 == pgroundup(seg.sz)
         stk == IF seg.st = "ok"
                  THEN alloc(seg.pt, seg.fr, sz1, sz1 + 2 * PGSZ, PTE_W, fail)
                  ELSE seg
         guard == (stk.sz - 2 * PGSZ) \div PGSZ
     IN  /\ IF stk.st = "ok"
               THEN /\ upt' = clear(stk.pt, guard)
                    /\ uframes' = stk.fr \ uframes
                    /\ usz' = stk.sz
                    /\ uguard' = {guard}
               ELSE UNCHANGED <<upt, uframes, usz, uguard>>
         /\ upanic' = (stk.st = "panic")
         /\ uvcall' = [op |-> "exec", st |-> stk.st]
  /\ ucpt' = [v \in PageNos |-> NoPte] /\ ucguard' = {}
  /\ UNCHANGED notUvm

\* Uvm::copy(new, sz) in fork, new being the child's table from
\* proc_uvmcreate: every page below sz is mapped in the child with the
\* parent's flags.  failat: the page at which the child runs out of memory.
uvm_fork(failat) ==
  /\ ~upanic
  /\ LET pages == {v \in UPages : v * PGSZ < usz}
     IN  IF \E v \in pages : ~is_v(upt[v])
           THEN /\ upanic' = TRUE
                /\ UNCHANGED <<ucpt, ucguard>>
                /\ uvcall' = [op |-> "fork", st |-> "panic"]
         ELSE IF failat \in pages
           THEN /\ ucpt' = [v \in PageNos |-> NoPte]
                /\ ucguard' = {}
                /\ uvcall' = [op |-> "fork", st |-> "err"]
                /\ UNCHANGED upanic
         ELSE /\ ucpt' = [v \in PageNos |->
                            IF v \in pages
                              THEN [pa |-> NFRAMES + 1 + v,
                                    flags |-> upt[v].flags]
                              ELSE proc_uvmcreate[v]]
              /\ ucguard' = uguard \cap pages
              /\ uvcall' = [op |-> "fork", st |-> "ok"]
              /\ UNCHANGED upanic
  /\ UNCHANGED <<upt, usz, uframes, uguard>>
  /\ UNCHANGED notUvm

SbrkArgs == (-NUPAGES * PGSZ)..(NUPAGES * PGSZ)

NextUvm ==
  \E n \in SbrkArgs, xperm \in {0, PTE_W, PTE_X}, fail \in Fails :
    sys_sbrk(n, xperm, fail)

\* A process that execs, forks and grows or shrinks by a page at a time.
NextExec ==
  \/ \E n \in {-PGSZ, PGSZ}, fail \in Fails : sys_sbrk(n, PTE_W, fail)
  \/ \E segsz \in 0..((NUPAGES - 2) * PGSZ), xperm \in {0, PTE_W, PTE_X},
        fail \in Fails : exec(segsz, xperm, fail)
  \/ \E failat \in UPages \cup {-1} : uvm_fork(failat)

SpecExec == InitUvm /\ [][NextExec]_vars

SpecUvm == InitUvm /\ [][NextUvm]_vars

\* C13: when growing fails the process size, the page table and the
\* allocated frames are as before the call and nothing has panicked; when
\* sbrk succeeds it returns the size before the call.
C13_GrowAtomic ==
  uvcall.op = "sbrk" =>
    /\ ~upanic
    /\ uvcall.st = "err" =>
         (usz = uvcall.oldsz /\ upt = uvcall.pt /\ uframes = uvcall.fr)
    /\ uvcall.st = "ok" =>
         /\ uvcall.ret = uvcall.oldsz
         /\ uvcall.n > 0 => usz = uvcall.oldsz + uvcall.n

\* a growth by two or more pages that failed after the first was mapped
C13_Witness ==
  /\ uvcall.op = "sbrk" /\ uvcall.st = "err"
  /\ uvcall.fail.at > pgroundup(uvcall.oldsz) \div PGSZ

\* the valid leaves of a page table that users cannot reach, the trampoline
\* and the trapframe aside
NoUserLeaves(pt) ==
  {v \in PageNos \ {TRAMPOLINE, TRAPFLAME} :
     is_v(pt[v]) /\ is_leaf(pt[v]) /\ ~is_u(pt[v])}

\* C20: every valid leaf PTE of a user page table has the U bit set unless
\* it maps the trampoline or the trapframe, after proc_uvmcreate, alloc,
\* copy (fork) and the stack and guard-page setup of exec.
C20_LeafHasU == NoUserLeaves(upt) = {} /\ NoUserLeaves(ucpt) = {}

\* C20, amended: every valid leaf PTE of a user page table has the U bit
\* set unless it maps the trampoline, the trapframe or the stack guard page
\* that exec has cleared, of which an image has at most one.
C20_LeafHasUOrGuard ==
  /\ NoUserLeaves(upt) \subseteq uguard
  /\ NoUserLeaves(ucpt) \subseteq ucguard
  /\ Cardinality(uguard) <= 1 /\ ucguard \subseteq uguard
  /\ Cardinality(ucguard) <= 1

\* exec has set up a stack with its guard page and fork has copied it
C20_Witness ==
  /\ NoUserLeaves(upt) # {} /\ NoUserLeaves(ucpt) # {}
  /\ \E v \in UPages : is_v(upt[v]) /\ is_u(upt[v])

(***************************************************************************)
(* A pipe: Pipe::write and Pipe::read over the bounded channel of mpmc.rs, *)
(* its Semaphore and its Condvars.  Thread 1 reads, the others write.      *)
(* Proc::sleep on a condvar is one step here: the mutex is given up and    *)
(* the thread sleeps, to be woken by a notify_all on the same condvar.     *)
(***************************************************************************)
Reader == 1
Writers == Threads \ {Reader}

\* a semaphore that never makes anyone wait
sem_never_full(cnt) == FALSE

\* Semaphore::wait's test: while *cnt >= self.max
sem_full(cnt) == cnt >= PIPESIZE

\* Condvar::notify_all, PROCS.wakeup(chan) by me: the other threads that
\* sleep on chan become RUNNABLE
notify_all(slp, c, me) ==
  [t \in Threads |-> IF t # me /\ slp[t] = c THEN "none" ELSE slp[t]]

\* the writers are each to write the n bytes at src, the reader to read as
\* many bytes to dst
InitPipe ==
  /\ LogIdle /\ SysIdle /\ IoIdle /\ DirIdle /\ VmIdle /\ ProcIdle
  /\ AllocIdle /\ UvmIdle /\ BioIdle /\ TailIdle
  /\ sem_cnt = 0
  /\ ch_buf = <<>>
  /\ ch_lock = 0
  /\ pi_pos = [t \in Threads |-> IF t = Reader THEN "r_loop" ELSE "w_loop"]
  /\ pi_ch = [t \in Threads |-> 0]
  /\ pi_i = [t \in Threads |-> 0]
  /\ pi_slp = [t \in Threads |-> "none"]
  /\ \E n \in 1..NBYTES :
       /\ \E srcs \in [Writers -> [1..n -> Values]] :
            pi_src = [t \in Threads |->
                        IF t \in Writers THEN srcs[t] ELSE <<>>]
       /\ pi_dst = [k \in 1..(n * Cardinality(Writers)) |-> 0]
  /\ pi_panic = FALSE

\* Pipe::write's loop: while i < n, copy the byte at src into ch
pipe_write_loop(t) ==
  /\ pi_pos[t] = "w_loop"
  /\ IF pi_i[t] < Len(pi_src[t])
     THEN /\ pi_ch' = [pi_ch EXCEPT ![t] = pi_src[t][1]]
          /\ pi_pos' = [pi_pos EXCEPT ![t] = "w_sem"]
     ELSE /\ pi_pos' = [pi_pos EXCEPT ![t] = "w_done"]
          /\ UNCHANGED pi_ch
  /\ UNCHANGED <<sem_cnt, ch_buf, ch_lock, pi_i, pi_slp, pi_src, pi_dst,
                 pi_panic>>
  /\ UNCHANGED notPipe

\* SyncSender::send: self.sem.wait(), one pass of its loop under the
\* semaphore's mutex
sem_wait(t) ==
  /\ pi_pos[t] = "w_sem"
  /\ pi_slp[t] = "none"
  /\ IF sem_full(sem_cnt)
     THEN /\ pi_slp' = [pi_slp EXCEPT ![t] = "sem"]
          /\ UNCHANGED <<sem_cnt, pi_pos>>
     ELSE /\ sem_cnt' = sem_cnt + 1
          /\ pi_pos' = [pi_pos EXCEPT ![t] = "w_push"]
          /\ UNCHANGED pi_slp
  /\ UNCHANGED <<ch_buf, ch_lock, pi_ch, pi_i, pi_src, pi_dst, pi_panic>>
  /\ UNCHANGED notPipe

\* SyncSender::send: push_back under the buffer's mutex and notify_all;
\* then Pipe::write's i += 1
send_push(t) ==
  /\ pi_pos[t] = "w_push"
  /\ ch_lock = 0
  /\ ch_buf' = Append(ch_buf, pi_ch[t])
  /\ pi_slp' = notify_all(pi_slp, "buf", t)
  /\ pi_i' = [pi_i EXCEPT ![t] = pi_i[t] + 1]
  /\ pi_pos' = [pi_pos EXCEPT ![t] = "w_loop"]
  /\ UNCHANGED <<sem_cnt, ch_lock, pi_ch, pi_src, pi_dst, pi_panic>>
  /\ UNCHANGED notPipe

\* Pipe::read's loop: while i < n
pipe_read_loop(t) ==
  /\ pi_pos[t] = "r_loop"
  /\ pi_pos' = [pi_pos EXCEPT ![t] =
                  IF pi_i[t] < Len(pi_dst) THEN "r_recv" ELSE "r_done"]
  /\ UNCHANGED <<sem_cnt, ch_buf, ch_lock, pi_ch, pi_i, pi_slp, pi_src,
                 pi_dst, pi_panic>>
  /\ UNCHANGED notPipe

\* SyncReceiver::recv: one pass of its loop under the buffer's mutex, which
\* it keeps when pop_front() gives a byte
recv_pop(t) ==
  /\ pi_pos[t] = "r_recv"
  /\ pi_slp[t] = "none"
  /\ ch_lock = 0
  /\ IF ch_buf # <<>>
     THEN /\ pi_ch' = [pi_ch EXCEPT ![t] = Head(ch_buf)]
          /\ ch_buf' = Tail(ch_buf)
          /\ ch_lock' = t
          /\ pi_pos' = [pi_pos EXCEPT ![t] = "r_post"]
          /\ UNCHANGED pi_slp
     ELSE /\ pi_slp' = [pi_slp EXCEPT ![t] = "buf"]
          /\ UNCHANGED <<pi_ch, ch_buf, ch_lock, pi_pos>>
  /\ UNCHANGED <<sem_cnt, pi_i, pi_src, pi_dst, pi_panic>>
  /\ UNCHANGED notPipe

\* SyncReceiver::recv: self.sem.post() and the return, which drops the
\* buffer's mutex
sem_post(t) ==
  /\ pi_pos[t] = "r_post"
  /\ IF sem_cnt > 0
     THEN /\ sem_cnt' = sem_cnt - 1
          /\ pi_slp' = IF sem_cnt - 1 <= PIPESIZE
                         THEN notify_all(pi_slp, "sem", t)
                         ELSE pi_slp
          /\ UNCHANGED pi_panic
     ELSE /\ pi_panic' = TRUE
          /\ UNCHANGED <<sem_cnt, pi_slp>>
  /\ ch_lock' = 0
  /\ pi_pos' = [pi_pos EXCEPT ![t] = "r_copyout"]
  /\ UNCHANGED <<ch_buf, pi_ch, pi_i, pi_src, pi_dst>>
  /\ UNCHANGED notPipe

\* Pipe::read: copy ch out to the byte at dst; i += 1
pipe_copyout(t) ==
  /\ pi_pos[t] = "r_copyout"
  /\ pi_dst' = [pi_dst EXCEPT ![1] = pi_ch[t]]
  /\ pi_i' = [pi_i EXCEPT ![t] = pi_i[t] + 1]
  /\ pi_pos' = [pi_pos EXCEPT ![t] = "r_loop"]
  /\ UNCHANGED <<sem_cnt, ch_buf, ch_lock, pi_ch, pi_slp, pi_src, pi_panic>>
  /\ UNCHANGED notPipe

NextPipe ==
  \E t \in Threads :
    \/ pipe_write_loop(t)
    \/ sem_wait(t)
    \/ send_push(t)
    \/ pipe_read_loop(t)
    \/ recv_pop(t)
    \/ sem_post(t)
    \/ pipe_copyout(t)

SpecPipe == InitPipe /\ [][NextPipe]_vars

\* C14: the semaphore's counter stays within 0..max, the channel never
\* holds more items than the counter says, post's assert never fails, and
\* no sender is past the semaphore while the channel holds max items.
C14_Bounded ==
  /\ sem_cnt \in 0..PIPESIZE
  /\ Len(ch_buf) <= sem_cnt
  /\ ~pi_panic
  /\ Len(ch_buf) = PIPESIZE => \A t \in Writers : pi_pos[t] # "w_push"

\* the channel is full and a writer with more to send sleeps on the
\* semaphore
C14_Witness ==
  /\ Len(ch_buf) = PIPESIZE
  /\ \E t \in Writers : pi_pos[t] = "w_sem" /\ pi_slp[t] = "sem"

\* C15: when the write and the reads of as many bytes have completed, the
\* reader's buffer holds the bytes of the writer's buffer in order.
C15_PipeRoundTrip ==
  \A w \in Writers :
    (Writers = {w} /\ \A t \in Threads : pi_pos[t] \in {"r_done", "w_done"})
      => pi_dst = pi_src[w]

\* Iter::next: at most len steps from head along next.
RECURSIVE iter_next(_, _, _)
iter_next(nx, h, len) ==
  IF len = 0 \/ h = 0 THEN <<>> ELSE <<h>> \o iter_next(nx, nx[h], len - 1)

\* Iter::next_back: at most len steps from tail along the weak prev handles.
RECURSIVE iter_next_back(_, _, _, _)
iter_next_back(pv, cnt, t, len) ==
  IF len = 0 \/ t = 0 THEN <<>>
  ELSE <<t>> \o iter_next_back(pv, cnt, upgrade(cnt, pv[t]), len - 1)

lru_iter == iter_next(bc_next, bc_head, NBUF)
lru_iter_rev == iter_next_back(bc_prev, bc_cnt, upgrade(bc_cnt, bc_tail), NBUF)

First(s, I) == IF I = {} THEN 0 ELSE s[CHOOSE i \in I : \A j \in I : i <= j]
Last(s, I) == IF I = {} THEN 0 ELSE s[CHOOSE i \in I : \A j \in I : i >= j]

\* The two loops of BCache::get.
cached(blk) ==
  First(lru_iter, {i \in 1..Len(lru_iter) : bc_blk[lru_iter[i]] = blk})
recycled ==
  First(lru_iter_rev,
        {i \in 1..Len(lru_iter_rev) : bc_cnt[lru_iter_rev[i]] = 1})

\* The least recently released buffer among those with a count of one.
LeastRecent == Last(bc_order, {i \in 1..NBUF : bc_cnt[bc_order[i]] = 1})

sleeplock_never_locked(b) == FALSE
\* SleepLock::lock's test: while lk.locked.
sleeplock_locked(b) == bc_locked[b]

\* The buffers BCache::get looks into.
Visited(blk) ==
  LET hit == {i \in 1..Len(lru_iter) : bc_blk[lru_iter[i]] = blk}
  IN IF hit = {}
       THEN {lru_iter[i] : i \in 1..Len(lru_iter)}
              \cup {lru_iter_rev[i] : i \in 1..Len(lru_iter_rev)}
       ELSE {lru_iter[i] : i \in 1..(CHOOSE i \in hit : \A j \in hit : i <= j)}

InitBio ==
  /\ LogIdle /\ SysIdle /\ IoIdle /\ DirIdle /\ VmIdle /\ ProcIdle
  /\ AllocIdle /\ UvmIdle /\ PipeIdle /\ BioIdle /\ TailIdle

\* BCache::read, with BCache::get.  A buffer whose sleep lock is taken makes
\* SleepLock::lock sleep with the lru mutex held, and Cpu::sched asserts that
\* only the process's own lock is held.  The reverse iterator keeps a
\* reference to a temporary Arc, and a dropped Buf may be looked into: the
\* read then either goes on with what the memory holds or faults.
bcache_read(t, blk, fault) ==
  /\ bc_panic = "none" /\ bc_pc[t] = "idle"
  /\ LET hit == cached(blk)
         b == IF hit # 0 THEN hit ELSE recycled
         ub == \/ hit = 0 /\ upgrade(bc_cnt, bc_tail) # 0
               \/ \E x \in Visited(blk) : bc_dead[x]
         call == [op |-> IF hit # 0 THEN "hit" ELSE "miss", b |-> b,
                  lrr |-> LeastRecent,
                  busy |-> b # 0 /\ bc_locked[b], ret |-> FALSE]
     IN /\ fault => ub
        /\ IF fault
             THEN /\ bc_panic' = "fault"
                  /\ UNCHANGED <<bc_blk, bc_valid, bc_locked, bc_cnt, bc_pc,
                                 bc_buf, bc_call>>
           ELSE IF b = 0
             THEN /\ bc_panic' = "no buffers" /\ bc_call' = call
                  /\ UNCHANGED <<bc_blk, bc_valid, bc_locked, bc_cnt, bc_pc,
                                 bc_buf>>
           ELSE IF sleeplock_locked(b)
             THEN /\ bc_panic' = "sched multiple locks" /\ bc_call' = call
                  /\ bc_blk' = [bc_blk EXCEPT ![b] = blk]
                  /\ bc_valid' = IF hit # 0 THEN bc_valid
                                 ELSE [bc_valid EXCEPT ![b] = FALSE]
                  /\ UNCHANGED <<bc_locked, bc_cnt, bc_pc, bc_buf>>
           ELSE /\ bc_blk' = [bc_blk EXCEPT ![b] = blk]
                /\ bc_valid' = [bc_valid EXCEPT ![b] = TRUE]
                /\ bc_locked' = [bc_locked EXCEPT ![b] = TRUE]
                /\ bc_cnt' = [bc_cnt EXCEPT ![b] = @ + 1]
                /\ bc_pc' = [bc_pc EXCEPT ![t] = "held"]
                /\ bc_buf' = [bc_buf EXCEPT ![t] = b]
                /\ bc_call' = [call EXCEPT !.ret = TRUE]
                /\ bc_panic' = "none"
  /\ UNCHANGED <<bc_next, bc_prev, bc_head, bc_tail, bc_dead, bc_pins,
                 bc_order>>
  /\ UNCHANGED notBio

\* BufGuard::drop, its first half: SleepLock::unlock.
bufguard_unlock(t) ==
  /\ bc_panic = "none" /\ bc_pc[t] = "held"
  /\ bc_locked' = [bc_locked EXCEPT ![bc_buf[t]] = FALSE]
  /\ bc_pc' = [bc_pc EXCEPT ![t] = "unlocked"]
  /\ UNCHANGED <<bc_next, bc_prev, bc_head, bc_tail, bc_cnt, bc_dead, bc_blk,
                 bc_valid, bc_buf, bc_pins, bc_order, bc_call, bc_panic>>
  /\ UNCHANGED notBio

\* Lru::relse.  ub: the Buf was dropped while relse still writes to it.
lru_relse(s, b) ==
  IF s.cnt[b] <= 1 THEN [s EXCEPT !.panic = "relse"]
  ELSE
    LET s1 == [s EXCEPT !.cnt[b] = @ - 1] IN
    IF s1.cnt[b] # 1 THEN DropArc(s1, b)
    ELSE
      LET nx == s1.next[b]
          pv == s1.prev[b]
          s2 == [s1 EXCEPT !.next[b] = 0, !.prev[b] = 0]
          s3 == IF nx # 0 THEN [s2 EXCEPT !.prev[nx] = pv] ELSE s2
      IN
      IF pv # 0 /\ upgrade(s3.cnt, pv) = 0 THEN [s3 EXCEPT !.panic = "unwrap"]
      ELSE
        LET old == IF pv # 0 THEN s3.next[pv] ELSE 0
            s4 == IF pv = 0 THEN s3
                  ELSE IF nx # 0
                    THEN [s3 EXCEPT !.next[pv] = nx, !.cnt[nx] = @ + 1]
                    ELSE [s3 EXCEPT !.next[pv] = 0]
            s5 == IF old # 0 THEN DropArc(s4, old) ELSE s4
            oh == s5.head
            s6 == IF oh # 0
                    THEN [s5 EXCEPT !.prev[oh] = b, !.next[b] = oh]
                    ELSE [s5 EXCEPT !.tail = b]
            s7 == [s6 EXCEPT !.head = b]
            s8 == IF nx # 0 THEN DropArc(s7, nx) ELSE s7
        IN [s8 EXCEPT !.ub = \E x \in {b, nx, pv, oh} \ {0} : s5.dead[x]]

LruNow ==
  [next |-> bc_next, prev |-> bc_prev, head |-> bc_head, tail |-> bc_tail,
   cnt |-> bc_cnt, dead |-> bc_dead, panic |-> "none",
   ub |-> FALSE]

SetLru(s) ==
  /\ bc_next' = s.next /\ bc_prev' = s.prev /\ bc_head' = s.head
  /\ bc_tail' = s.tail /\ bc_cnt' = s.cnt /\ bc_dead' = s.dead

\* BufGuard::drop, its second half: lru.lock() and Lru::relse.
bufguard_drop(t, fault) ==
  /\ bc_panic = "none" /\ bc_pc[t] = "unlocked"
  /\ LET b == bc_buf[t]
         s == lru_relse(LruNow, b)
     IN /\ fault => (s.ub \/ bc_dead[b])
        /\ IF fault
             THEN /\ bc_panic' = "fault"
                  /\ UNCHANGED <<bc_next, bc_prev, bc_head, bc_tail, bc_cnt,
                                 bc_dead, bc_pc, bc_buf, bc_order>>
             ELSE /\ SetLru(s)
                  /\ bc_panic' = s.panic
                  /\ bc_pc' = [bc_pc EXCEPT ![t] = "idle"]
                  /\ bc_buf' = [bc_buf EXCEPT ![t] = 0]
                  /\ bc_order' =
                       IF s.panic # "none" THEN bc_order
                       ELSE <<b>> \o SelectSeq(bc_order, LAMBDA x : x # b)
  /\ UNCHANGED <<bc_blk, bc_valid, bc_locked, bc_pins, bc_call>>
  /\ UNCHANGED notBio

\* BufGuard::pin, as Log::write calls it: Arc::decrement_strong_count.
bufguard_pin(t) ==
  /\ bc_panic = "none" /\ bc_pc[t] = "held"
  /\ bc_pins[bc_buf[t]] < MAXPIN
  /\ SetLru(DropArc(LruNow, bc_buf[t]))
  /\ bc_pins' = [bc_pins EXCEPT ![bc_buf[t]] = @ + 1]
  /\ UNCHANGED <<bc_blk, bc_valid, bc_locked, bc_pc, bc_buf, bc_order,
                 bc_call, bc_panic>>
  /\ UNCHANGED notBio

\* BufGuard::unpin, as Log::install_trans calls it on a block that was
\* pinned: Arc::increment_strong_count.
bufguard_unpin(t) ==
  /\ bc_panic = "none" /\ bc_pc[t] = "held"
  /\ bc_pins[bc_buf[t]] > 0
  /\ bc_cnt' = [bc_cnt EXCEPT ![bc_buf[t]] = @ + 1]
  /\ bc_pins' = [bc_pins EXCEPT ![bc_buf[t]] = @ - 1]
  /\ UNCHANGED <<bc_next, bc_prev, bc_head, bc_tail, bc_dead, bc_blk,
                 bc_valid, bc_locked, bc_pc, bc_buf, bc_order, bc_call,
                 bc_panic>>
  /\ UNCHANGED notBio

NextBio ==
  \/ \E t \in Threads, blk \in BlockNos, fault \in BOOLEAN :
       bcache_read(t, blk, fault)
  \/ \E t \in Threads : bufguard_unlock(t)
  \/ \E t \in Threads, fault \in BOOLEAN : bufguard_drop(t, fault)
  \/ \E t \in Threads : bufguard_pin(t)
  \/ \E t \in Threads : bufguard_unpin(t)

SpecBio == InitBio /\ [][NextBio]_vars

(* C16: after any sequence of get and release operations the LRU list      *)
(* holds exactly NBUF buffers, each exactly once: the traversal from head  *)
(* forward and the traversal from tail backward both visit all NBUF        *)
(* buffers and end, and head and tail are the true first and last          *)
(* elements.                                                               *)
C16_LruComplete ==
  bc_panic = "none" =>
    /\ Len(lru_iter) = NBUF
    /\ {lru_iter[i] : i \in 1..NBUF} = Bufs
    /\ Len(lru_iter_rev) = NBUF
    /\ \A i \in 1..NBUF : lru_iter_rev[i] = lru_iter[NBUF + 1 - i]
    /\ bc_prev[bc_head] = 0 /\ bc_next[bc_tail] = 0

(* C17: when get misses, the buffer it recycles is the least recently      *)
(* released buffer among those whose reference count is one.               *)
C17_RecyclesLeastRecent ==
  (bc_call.op = "miss" /\ bc_call.lrr # 0) => bc_call.b = bc_call.lrr

Holders(b) == {t \in Threads : bc_pc[t] = "held" /\ bc_buf[t] = b}

CheckedOut(b) == \E t \in Threads : bc_pc[t] # "idle" /\ bc_buf[t] = b

(* C19: for every buffer, the reference count is one exactly when the      *)
(* buffer is free for recycling: no caller has it checked out and the log  *)
(* has not pinned it.                                                      *)
C19_CountOneIffFree ==
  bc_panic = "none" =>
    \A b \in Bufs : (bc_cnt[b] = 1) <=> (~CheckedOut(b) /\ bc_pins[b] = 0)

(***************************************************************************)
(* Later subsystems.                                                       *)
(***************************************************************************)
OldIdle ==
  /\ LogIdle /\ SysIdle /\ IoIdle /\ DirIdle /\ VmIdle /\ ProcIdle
  /\ AllocIdle /\ UvmIdle /\ PipeIdle /\ BioIdle

(***************************************************************************)
(* Interrupts and the depth of locks on a cpu: proc.rs, Cpus::intr_lock,   *)
(* Cpu::lock, Cpu::unlock.                                                 *)
(***************************************************************************)
InitIntr == OldIdle /\ IntrRest /\ IntrIdle

outermost_always(noff) == TRUE
\* Cpu::lock's test for the outermost lock: *self.noff.get() == 0
outermost(noff) == noff = 0

\* Cpus::intr_lock with Cpu::lock(old)
intr_lock(c) ==
  /\ c_noff[c] < MAXNOFF
  /\ LET old == c_intr[c]
     IN  /\ c_intr' = [c_intr EXCEPT ![c] = FALSE]
         /\ c_intena' = IF outermost(c_noff[c])
                          THEN [c_intena EXCEPT ![c] = old] ELSE c_intena
         /\ c_pre' = IF c_noff[c] = 0 THEN [c_pre EXCEPT ![c] = old]
                     ELSE c_pre
  /\ c_noff' = [c_noff EXCEPT ![c] = @ + 1]
  /\ c_deep' = [c_deep EXCEPT ![c] = IF @ > c_noff[c] THEN @ ELSE c_noff[c] + 1]
  /\ UNCHANGED notIntr

\* the drop of an IntrLock: Cpu::unlock
cpu_unlock(c) ==
  /\ c_noff[c] >= 1 /\ ~c_intr[c]
  /\ c_noff' = [c_noff EXCEPT ![c] = @ - 1]
  /\ c_intr' = IF c_noff[c] = 1 /\ c_intena[c]
                 THEN [c_intr EXCEPT ![c] = TRUE] ELSE c_intr
  /\ UNCHANGED <<c_intena, c_pre, c_deep>>
  /\ UNCHANGED notIntr

\* intr_on() and intr_off() as usertrap and usertrap_ret call them, no lock
\* being held
intr_set(c, on) ==
  /\ c_noff[c] = 0 /\ c_intr[c] # on
  /\ c_intr' = [c_intr EXCEPT ![c] = on]
  /\ c_pre' = [c_pre EXCEPT ![c] = on]
  /\ c_deep' = [c_deep EXCEPT ![c] = 0]
  /\ UNCHANGED <<c_noff, c_intena>>
  /\ UNCHANGED notIntr

NextIntr ==
  \/ \E c \in CpuIds : intr_lock(c)
  \/ \E c \in CpuIds : cpu_unlock(c)
  \/ \E c \in CpuIds, on \in BOOLEAN : intr_set(c, on)

SpecIntr == InitIntr /\ [][NextIntr]_vars

BlocksPer == NDIRECT + 1 + NINDIRECT
DirectBlk(i, k) == (i - 1) * BlocksPer + k
IndBlk(i) == (i - 1) * BlocksPer + NDIRECT + 1
EntryBlk(i, j) == (i - 1) * BlocksPer + NDIRECT + 1 + j

\* a file of inum i with nd direct blocks and, when ni >= 0, an indirect
\* block with ni entries
FileOf(i, nd, ni) ==
  [itype |-> "File", nlink |-> 1,
   addrs |-> [k \in 1..NDIRECT |-> IF k <= nd THEN DirectBlk(i, k) ELSE 0],
   ind |-> IF ni >= 0 THEN IndBlk(i) ELSE 0]
EntriesOf(i, ni) ==
  [j \in 1..NINDIRECT |-> IF j <= ni THEN EntryBlk(i, j) ELSE 0]

\* the blocks an inode holds
BlocksOf(d, ents) ==
  ({d.addrs[k] : k \in 1..NDIRECT} \cup {d.ind}
     \cup (IF d.ind # 0 THEN {ents[j] : j \in 1..NINDIRECT} ELSE {})) \ {0}

InitIt ==
  /\ OldIdle /\ ItRest
  /\ it_slot = [s \in Slots |-> 0]
  /\ mi_inum = [o \in MInodes |-> 0]
  /\ mi_cnt = [o \in MInodes |-> 0]
  /\ mi_locked = [o \in MInodes |-> 0]
  /\ mi_data = [o \in MInodes |-> NewIData]
  /\ it_h = [t \in Threads |-> 0]
  /\ it_pc = [t \in Threads |-> "idle"]
  /\ \E nd \in [INums -> 0..NDIRECT], ni \in [INums -> (-1)..NINDIRECT],
        used \in SUBSET INums :
       /\ 1 \in used
       /\ dinode = [i \in INums |->
                      IF i \in used THEN FileOf(i, nd[i], ni[i])
                      ELSE FreeDInode]
       /\ indblk = [i \in INums |->
                      IF i \in used THEN EntriesOf(i, ni[i])
                      ELSE EntriesOf(i, 0)]
       /\ \A i \in INums \ used : nd[i] = 0 /\ ni[i] = -1
       /\ \A i \in used \ {1} : nd[i] = NDIRECT /\ ni[i] = NINDIRECT
  /\ bitmap = UNION {BlocksOf(dinode[i], indblk[i]) : i \in INums}
  /\ it_last = NoPut
  /\ it_panic = "none"

SlotOf(o) == {s \in Slots : it_slot[s] = o}
FirstOf(S) == IF S = {} THEN 0 ELSE CHOOSE x \in S : \A y \in S : x <= y

\* ITable::get(dev, inum), under the table's lock
itable_get(t, inum) ==
  LET found == FirstOf({s \in Slots : it_slot[s] # 0
                                       /\ mi_inum[it_slot[s]] = inum})
      empty == FirstOf({s \in Slots : it_slot[s] = 0})
      o == FirstOf({x \in MInodes : mi_cnt[x] = 0})
  IN  IF found # 0
        THEN /\ mi_cnt' = [mi_cnt EXCEPT ![it_slot[found]] = @ + 1]
             /\ it_h' = [it_h EXCEPT ![t] = it_slot[found]]
             /\ it_pc' = [it_pc EXCEPT ![t] = "has"]
             /\ UNCHANGED <<it_slot, mi_inum, mi_data, it_panic>>
      ELSE IF empty = 0
        THEN /\ it_panic' = "iget: no inodes"
             /\ UNCHANGED <<it_slot, mi_inum, mi_cnt, mi_data, it_h, it_pc>>
      ELSE /\ it_slot' = [it_slot EXCEPT ![empty] = o]
           /\ mi_inum' = [mi_inum EXCEPT ![o] = inum]
           /\ mi_cnt' = [mi_cnt EXCEPT ![o] = 2]
           /\ mi_data' = [mi_data EXCEPT ![o] = NewIData]
           /\ it_h' = [it_h EXCEPT ![t] = o]
           /\ it_pc' = [it_pc EXCEPT ![t] = "has"]
           /\ UNCHANGED it_panic

\* namei and dirlookup: a get of an inode that a directory entry names
iget(t, inum) ==
  /\ it_panic = "none" /\ it_pc[t] = "idle"
  /\ dinode[inum].itype # "None" /\ dinode[inum].nlink > 0
  /\ itable_get(t, inum)
  /\ it_last' = NoPut
  /\ UNCHANGED <<mi_locked, dinode, indblk, bitmap>>
  /\ UNCHANGED notIt

\* ITable::alloc: the first inode that is free on disk gets a type, then get
ialloc(t) ==
  /\ it_panic = "none" /\ it_pc[t] = "idle"
  /\ LET inum == FirstOf({i \in INums : dinode[i].itype = "None"})
     IN  /\ inum # 0
         /\ dinode' = [dinode EXCEPT ![inum] =
                         [FreeDInode EXCEPT !.itype = "File"]]
         /\ itable_get(t, inum)
  /\ it_last' = NoPut
  /\ UNCHANGED <<mi_locked, indblk, bitmap>>
  /\ UNCHANGED notIt

\* MInode::lock: the sleep lock, and the inode is read from disk if needed
ilock(t) ==
  /\ it_panic = "none" /\ it_pc[t] = "has"
  /\ LET o == it_h[t]
         d == dinode[mi_inum[o]]
     IN  /\ mi_locked[o] = 0
         /\ mi_locked' = [mi_locked EXCEPT ![o] = t]
         /\ IF mi_data[o].valid
              THEN UNCHANGED <<mi_data, it_panic>>
              ELSE /\ mi_data' = [mi_data EXCEPT ![o] = [valid |-> TRUE] @@ d]
                   /\ it_panic' = IF d.itype = "None" THEN "ilock: no type"
                                  ELSE "none"
  /\ it_pc' = [it_pc EXCEPT ![t] = "locked"]
  /\ it_last' = NoPut
  /\ UNCHANGED <<it_slot, mi_inum, mi_cnt, it_h, dinode, indblk, bitmap>>
  /\ UNCHANGED notIt

\* the drop of the SleepLockGuard
iunlock(t) ==
  /\ it_panic = "none" /\ it_pc[t] = "locked"
  /\ mi_locked' = [mi_locked EXCEPT ![it_h[t]] = 0]
  /\ it_pc' = [it_pc EXCEPT ![t] = "has"]
  /\ it_last' = NoPut
  /\ UNCHANGED <<it_slot, mi_inum, mi_cnt, mi_data, it_h, dinode, indblk,
                 bitmap, it_panic>>
  /\ UNCHANGED notIt

\* IData::update: the in-memory inode goes to disk
update(i, data) ==
  [itype |-> data.itype, nlink |-> data.nlink, addrs |-> data.addrs,
   ind |-> data.ind]

\* nlink += 1 or nlink -= 1 with update, as link, create and unlink do with
\* the inode locked
set_nlink(t, n) ==
  /\ it_panic = "none" /\ it_pc[t] = "locked"
  /\ LET o == it_h[t]
         data == [mi_data[o] EXCEPT !.nlink = n]
     IN  /\ n # mi_data[o].nlink
         /\ mi_data' = [mi_data EXCEPT ![o] = data]
         /\ dinode' = [dinode EXCEPT ![mi_inum[o]] = update(mi_inum[o], data)]
  /\ it_last' = NoPut
  /\ UNCHANGED <<it_slot, mi_inum, mi_cnt, mi_locked, it_h, it_pc, indblk,
                 bitmap, it_panic>>
  /\ UNCHANGED notIt

trunc_direct_only(data, ents, bm) ==
  [data |-> [data EXCEPT !.addrs = [k \in 1..NDIRECT |-> 0]],
   bm |-> bm \ {data.addrs[k] : k \in 1..NDIRECT},
   ok |-> \A k \in 1..NDIRECT : data.addrs[k] # 0 => data.addrs[k] \in bm]

\* IData::trunc with bfree: ok is false when bfree meets a block that is
\* free already
trunc(data, ents, bm) ==
  LET direct == {data.addrs[k] : k \in 1..NDIRECT} \ {0}
      named == IF data.ind # 0 THEN {ents[j] : j \in 1..NINDIRECT} \ {0}
               ELSE {}
      ind == {data.ind} \ {0}
  IN  [data |-> [data EXCEPT !.addrs = [k \in 1..NDIRECT |-> 0], !.ind = 0],
       bm |-> bm \ (direct \cup named \cup ind),
       ok |-> (direct \cup named \cup ind) \subseteq bm]

Holders23(o) == {u \in Threads : it_h[u] = o}

\* ITable::put, up to Mutex::unlock(guard): with other handles about, the
\* handle is just dropped; the last handle takes the sleep lock and lets go
\* of the table
put_begin(t) ==
  /\ it_panic = "none" /\ it_pc[t] = "has"
  /\ LET o == it_h[t]
     IN  IF mi_cnt[o] # 2
           THEN /\ mi_cnt' = [mi_cnt EXCEPT ![o] = @ - 1]
                /\ mi_inum' = IF mi_cnt[o] = 1
                                THEN [mi_inum EXCEPT ![o] = 0] ELSE mi_inum
                /\ it_h' = [it_h EXCEPT ![t] = 0]
                /\ it_pc' = [it_pc EXCEPT ![t] = "idle"]
                /\ it_last' = [op |-> "put", o |-> o, inum |-> mi_inum[o],
                               trunc |-> FALSE, others |-> Holders23(o) \ {t},
                               pre |-> mi_data[o], blocks |-> {},
                               dpre |-> dinode[mi_inum[o]], bpre |-> bitmap]
                /\ UNCHANGED <<mi_locked, it_panic>>
           ELSE IF mi_locked[o] # 0
             THEN /\ it_panic' = "sched multiple locks"
                  /\ it_last' = NoPut
                  /\ UNCHANGED <<mi_cnt, mi_inum, mi_locked, it_h, it_pc>>
           ELSE /\ mi_locked' = [mi_locked EXCEPT ![o] = t]
                /\ it_pc' = [it_pc EXCEPT ![t] = "put_mid"]
                /\ it_last' = NoPut
                /\ UNCHANGED <<mi_cnt, mi_inum, it_h, it_panic>>
  /\ UNCHANGED <<it_slot, mi_data, dinode, indblk, bitmap>>
  /\ UNCHANGED notIt

\* ITable::put, the table unlocked: an inode that is valid and has no links
\* is truncated and freed on disk
put_free(t) ==
  /\ it_panic = "none" /\ it_pc[t] = "put_mid"
  /\ LET o == it_h[t]
         i == mi_inum[o]
         tr == trunc(mi_data[o], indblk[i], bitmap)
         data == [tr.data EXCEPT !.itype = "None"]
         last == [op |-> "put", o |-> o, inum |-> i, trunc |-> TRUE,
                  others |-> Holders23(o) \ {t}, pre |-> mi_data[o],
                  blocks |-> BlocksOf(dinode[i], indblk[i]),
                  dpre |-> dinode[i], bpre |-> bitmap]
     IN  IF mi_data[o].valid /\ mi_data[o].nlink = 0
           THEN IF tr.ok
                  THEN /\ mi_data' = [mi_data EXCEPT ![o] =
                                        [data EXCEPT !.valid = FALSE]]
                       /\ dinode' = [dinode EXCEPT ![i] = update(i, data)]
                       /\ bitmap' = tr.bm
                       /\ it_last' = last
                       /\ UNCHANGED it_panic
                  ELSE /\ it_panic' = "freeing free block"
                       /\ it_last' = NoPut
                       /\ UNCHANGED <<mi_data, dinode, bitmap>>
           ELSE /\ it_last' = [last EXCEPT !.trunc = FALSE, !.blocks = {}]
                /\ UNCHANGED <<mi_data, dinode, bitmap, it_panic>>
  /\ it_pc' = [it_pc EXCEPT ![t] = "put_end"]
  /\ UNCHANGED <<it_slot, mi_inum, mi_cnt, mi_locked, it_h, indblk>>
  /\ UNCHANGED notIt

\* ITable::put from itable.lock() on: the slot of this MInode is emptied,
\* then the sleep lock and the handle are dropped
put_end(t) ==
  /\ it_panic = "none" /\ it_pc[t] = "put_end"
  /\ LET o == it_h[t]
         n == mi_cnt[o] - Cardinality(SlotOf(o)) - 1
     IN  /\ it_slot' = [s \in Slots |-> IF it_slot[s] = o THEN 0
                                        ELSE it_slot[s]]
         /\ mi_cnt' = [mi_cnt EXCEPT ![o] = n]
         /\ mi_inum' = IF n = 0 THEN [mi_inum EXCEPT ![o] = 0] ELSE mi_inum
         /\ mi_locked' = [mi_locked EXCEPT ![o] = 0]
  /\ it_h' = [it_h EXCEPT ![t] = 0]
  /\ it_pc' = [it_pc EXCEPT ![t] = "idle"]
  /\ UNCHANGED <<mi_data, dinode, indblk, bitmap, it_last, it_panic>>
  /\ UNCHANGED notIt

NextIt ==
  \/ \E t \in Threads, inum \in INums : iget(t, inum)
  \/ \E t \in Threads : ialloc(t)
  \/ \E t \in Threads : ilock(t)
  \/ \E t \in Threads : iunlock(t)
  \/ \E t \in Threads, n \in 0..1 : set_nlink(t, n)
  \/ \E t \in Threads : put_begin(t)
  \/ \E t \in Threads : put_free(t)
  \/ \E t \in Threads : put_end(t)

SpecIt == InitIt /\ [][NextIt]_vars

\* C22: at most one slot of the inode table holds a given (dev, inum), and
\* every live handle for (dev, inum) refers to the MInode of that slot, so
\* that all holders share one in-memory copy.
C22_OneCopy ==
  /\ \A s1, s2 \in Slots :
       (s1 # s2 /\ it_slot[s1] # 0 /\ it_slot[s2] # 0)
         => mi_inum[it_slot[s1]] # mi_inum[it_slot[s2]]
  /\ \A t \in Threads : it_h[t] # 0 => SlotOf(it_h[t]) # {}

\* C23: a put that drops the last handle of a valid inode with nlink == 0
\* frees every data block and the indirect block in the bitmap, sets the
\* type on disk to None and marks the inode invalid; a put of an inode
\* with nlink > 0 or with other live handles truncates nothing.
C23_PutFrees ==
  it_last.op = "put" =>
    LET i == it_last.inum
        last == it_last.others = {} /\ it_last.pre.valid
                  /\ it_last.pre.nlink = 0
    IN  /\ it_last.trunc <=> last
        /\ it_last.trunc =>
             /\ it_last.blocks \cap bitmap = {}
             /\ dinode[i].itype = "None"
             /\ ~mi_data[it_last.o].valid
             /\ BlocksOf(dinode[i], indblk[i]) = {}
        /\ ~it_last.trunc =>
             (dinode[i] = it_last.dpre /\ bitmap = it_last.bpre)

\* an inode with an indirect block has just been truncated by put
C23_Witness ==
  /\ it_last.op = "put" /\ it_last.trunc
  /\ it_last.dpre.ind # 0 /\ Cardinality(it_last.blocks) >= 3

(***************************************************************************)
(* The log's use of the buffer cache: log.rs, Mutex<Log>::write and        *)
(* Log::install_trans, over BCache::read and the drop of a BufGuard.  Of   *)
(* install_trans the buffer of the home block is followed, the one that    *)
(* was pinned.                                                             *)
(***************************************************************************)
InitLb == OldIdle /\ LbRest /\ LbIdle

InHdr(blk) == \E i \in 1..Len(lb_hdr) : lb_hdr[i] = blk

\* Mutex<Log>::write(b), up to the drop of b: absorption, or the block is
\* recorded and b.pin() is called
lb_log_write(t) ==
  /\ bc_panic = "none" /\ bc_pc[t] = "held" /\ lb_commit = 0
  /\ Len(lb_hdr) < LOGSIZE
  /\ LET b == bc_buf[t]
     IN  IF InHdr(bc_blk[b])
           THEN UNCHANGED <<lb_hdr, lb_base, bc_next, bc_prev, bc_head,
                            bc_tail, bc_cnt, bc_dead, bc_pins>>
           ELSE /\ lb_hdr' = Append(lb_hdr, bc_blk[b])
                /\ lb_base' = [lb_base EXCEPT ![b] = bc_cnt[b] - 1]
                /\ SetLru(DropArc(LruNow, b))
                /\ bc_pins' = [bc_pins EXCEPT ![b] = @ + 1]
  /\ bc_pc' = [bc_pc EXCEPT ![t] = "logged"]
  /\ UNCHANGED <<bc_blk, bc_valid, bc_locked, bc_buf, bc_order, bc_call,
                 bc_panic, lb_commit>>
  /\ UNCHANGED notLbBio

\* the drop of b at the end of Log::write or of a pass of install_trans,
\* its first half: SleepLock::unlock
lb_unlock(t) ==
  /\ bc_panic = "none" /\ bc_pc[t] = "logged"
  /\ bc_locked' = [bc_locked EXCEPT ![bc_buf[t]] = FALSE]
  /\ bc_pc' = [bc_pc EXCEPT ![t] = "unlocked"]
  /\ UNCHANGED <<bc_next, bc_prev, bc_head, bc_tail, bc_cnt, bc_dead, bc_blk,
                 bc_valid, bc_buf, bc_pins, bc_order, bc_call, bc_panic>>
  /\ UNCHANGED <<lb_hdr, lb_commit, lb_base>>
  /\ UNCHANGED notLbBio

\* Log::commit begins, in the end_op of the last transaction: every log
\* write has returned; a thread that only reads may still hold a buffer
lb_commit_begin(t) ==
  /\ bc_panic = "none" /\ bc_pc[t] = "idle" /\ lb_commit = 0
  /\ lb_hdr # <<>>
  /\ \A u \in Threads : bc_pc[u] \in {"idle", "held"}
  /\ lb_commit' = t
  /\ UNCHANGED <<lb_hdr, lb_base>>
  /\ UNCHANGED notLb

\* install_trans, a pass: dbuf = BCACHE.read(dev, lh.block[tail])
lb_install_read(t, fault) ==
  /\ lb_commit = t /\ lb_hdr # <<>>
  /\ bcache_read(t, Head(lb_hdr), fault)

\* install_trans, the pass goes on: dbuf.unpin(), and the block is done
lb_install_unpin(t) ==
  /\ bc_panic = "none" /\ lb_commit = t /\ bc_pc[t] = "held"
  /\ LET b == bc_buf[t]
     IN  /\ bc_cnt' = [bc_cnt EXCEPT ![b] = @ + 1]
         /\ bc_pins' = [bc_pins EXCEPT ![b] = IF @ > 0 THEN @ - 1 ELSE 0]
  /\ lb_hdr' = Tail(lb_hdr)
  /\ bc_pc' = [bc_pc EXCEPT ![t] = "logged"]
  /\ UNCHANGED <<bc_next, bc_prev, bc_head, bc_tail, bc_dead, bc_blk,
                 bc_valid, bc_locked, bc_buf, bc_order, bc_call, bc_panic>>
  /\ UNCHANGED <<lb_commit, lb_base>>
  /\ UNCHANGED notLbBio

\* Log::commit ends: lh.n = 0
lb_commit_end(t) ==
  /\ bc_panic = "none" /\ lb_commit = t /\ bc_pc[t] = "idle"
  /\ lb_hdr = <<>>
  /\ lb_commit' = 0
  /\ UNCHANGED <<lb_hdr, lb_base>>
  /\ UNCHANGED notLb

NextLb ==
  \/ \E t \in Threads, blk \in BlockNos, fault \in BOOLEAN :
       lb_commit # t /\ bcache_read(t, blk, fault)
  \/ \E t \in Threads : bufguard_unlock(t)
  \/ \E t \in Threads, fault \in BOOLEAN : bufguard_drop(t, fault)
  \/ \E t \in Threads : lb_log_write(t)
  \/ \E t \in Threads : lb_unlock(t)
  \/ \E t \in Threads : lb_commit_begin(t)
  \/ \E t \in Threads, fault \in BOOLEAN : lb_install_read(t, fault)
  \/ \E t \in Threads : lb_install_unpin(t)
  \/ \E t \in Threads : lb_commit_end(t)

SpecLb == InitLb /\ [][NextLb]_vars

\* C25: a buffer whose block a log write has recorded is not recycled by
\* the buffer cache for another block before the commit has installed and
\* unpinned it, also after the writer has released it.
C25_PinnedStays ==
  \A i \in 1..Len(lb_hdr) :
    \E b \in Bufs : bc_blk[b] = lb_hdr[i] /\ bc_pins[b] > 0

\* C26: the header never holds a block number twice, each logged block is
\* pinned once, and when its pin is undone and nobody has the buffer any
\* more its reference count is what it was before the transaction; the
\* release of a logged buffer does not panic.
C26_PinsCancel ==
  /\ \A i, j \in 1..Len(lb_hdr) : i # j => lb_hdr[i] # lb_hdr[j]
  /\ \A b \in Bufs : bc_pins[b] <= 1
  /\ \A b \in Bufs :
       (lb_base[b] # -1 /\ bc_pins[b] = 0 /\ ~CheckedOut(b)
          /\ bc_panic = "none") => bc_cnt[b] = lb_base[b]
  /\ bc_panic = "relse" =>
       \A t \in Threads : bc_pc[t] = "unlocked" => lb_base[bc_buf[t]] = -1

(***************************************************************************)
(* The way into Cpu::sched.  Every kernel path that ends in sched is       *)
(* written down as the steps it takes on the locks: Mutex::lock and the    *)
(* read and write of an RwLock each call CPUS.intr_lock, so each lock held *)
(* counts one in Cpu.noff.  Whether the path has to sleep is an input.     *)
(* The time a process spends switched out is not followed: sched is one    *)
(* step, from its assertions to the return of swtch.                       *)
(***************************************************************************)
InitSc == OldIdle /\ ScRest /\ ScIdle

Lock(x) == [op |-> "lock", x |-> x]
Unlock(x) == [op |-> "unlock", x |-> x]
SetState(s) == [op |-> "state", x |-> s]
Sched == [op |-> "sched", x |-> ""]

\* Process::sleep(chan, guard of x)
proc_sleep(x) ==
  <<Lock("proc"), Unlock(x), SetState("SLEEPING"), Sched, Unlock("proc"),
    Lock(x)>>

\* a loop of the shape: x.lock(); while cond { guard = p.sleep(chan, guard) }
SleepUnder(x, busy) ==
  <<Lock(x)>> \o (IF busy THEN proc_sleep(x) ELSE <<>>) \o <<Unlock(x)>>

\* SleepLock::lock
sleeplock_lock(busy) == SleepUnder("lk", busy)

\* BCache::get: the lru mutex, the guard of b.ctrl, then b.data.lock() inside
\* the BufGuard that is returned; ctrl and lru are dropped on return
bcache_get(busy) ==
  <<Lock("bcache"), Lock("ctrl")>> \o sleeplock_lock(busy)
    \o <<Unlock("ctrl"), Unlock("bcache")>>

Sites ==
  {"bcache_get", "ilock", "iput", "sem_wait", "recv", "begin_op", "wait",
   "sys_sleep", "cons_read", "disk_rw", "yielding", "exit"}

\* the paths that can find that they have to sleep
Sleepers == Sites \ {"iput", "yielding", "exit"}

Path(site, busy) ==
  CASE site = "bcache_get" -> bcache_get(busy)
    [] site = "ilock" -> sleeplock_lock(busy)
    [] site = "iput" -> <<Lock("itable")>> \o sleeplock_lock(FALSE)
                          \o <<Unlock("itable")>>
    [] site = "sem_wait" -> SleepUnder("semaphore", busy)
    [] site = "recv" -> SleepUnder("sync channel", busy)
    [] site = "begin_op" -> SleepUnder("log", busy)
    [] site = "wait" -> SleepUnder("wait_lock", busy)
    [] site = "sys_sleep" -> SleepUnder("ticks", busy)
    [] site = "cons_read" -> SleepUnder("cons", busy)
    [] site = "disk_rw" -> SleepUnder("disk", busy)
    [] site = "yielding" ->
         <<Lock("proc"), SetState("RUNNABLE"), Sched, Unlock("proc")>>
    [] site = "exit" ->
         <<Lock("wait_lock"), Lock("proc"), SetState("ZOMBIE"),
           Unlock("wait_lock"), Sched>>
    [] OTHER -> <<>>

Prog(c) == Path(sc_site[c], sc_busy[c])
AtOp(c, op) ==
  /\ sc_panic = "none" /\ sc_site[c] # "none"
  /\ sc_pc[c] <= Len(Prog(c)) /\ Prog(c)[sc_pc[c]].op = op
Arg(c) == Prog(c)[sc_pc[c]].x
Holds(c, x) == \E i \in 1..Len(sc_held[c]) : sc_held[c][i] = x
Without(s, x) == SelectSeq(s, LAMBDA y : y # x)

\* the process on c enters the kernel on one of the paths
sc_call(c, site, busy) ==
  /\ sc_panic = "none" /\ sc_site[c] = "none"
  /\ busy => site \in Sleepers
  /\ sc_site' = [sc_site EXCEPT ![c] = site]
  /\ sc_busy' = [sc_busy EXCEPT ![c] = busy]
  /\ sc_pc' = [sc_pc EXCEPT ![c] = 1]
  /\ UNCHANGED <<sc_held, sc_state, sc_intr, sc_intena, sc_panic>>
  /\ UNCHANGED notSc

\* Mutex::lock, RwLock::read, RwLock::write: CPUS.intr_lock (Cpu::lock),
\* then spin for the lock.  The lock of a process belongs to it alone here.
sc_lock(c) ==
  /\ AtOp(c, "lock")
  /\ Arg(c) # "proc" => \A d \in 1..NCPU : ~Holds(d, Arg(c))
  /\ sc_held' = [sc_held EXCEPT ![c] = Append(@, Arg(c))]
  /\ sc_intena' = [sc_intena EXCEPT ![c] =
                     IF sc_held[c] = <<>> THEN sc_intr[c] ELSE @]
  /\ sc_intr' = [sc_intr EXCEPT ![c] = FALSE]
  /\ sc_pc' = [sc_pc EXCEPT ![c] = @ + 1]
  /\ UNCHANGED <<sc_site, sc_busy, sc_state, sc_panic>>
  /\ UNCHANGED notSc

\* the drop of a guard: the lock is given up, then Cpu::unlock
sc_unlock(c) ==
  /\ AtOp(c, "unlock")
  /\ sc_held' = [sc_held EXCEPT ![c] = Without(@, Arg(c))]
  /\ sc_intr' = [sc_intr EXCEPT ![c] =
                   IF sc_held'[c] = <<>> THEN sc_intena[c] ELSE @]
  /\ sc_pc' = [sc_pc EXCEPT ![c] = @ + 1]
  /\ UNCHANGED <<sc_site, sc_busy, sc_state, sc_intena, sc_panic>>
  /\ UNCHANGED notSc

\* guard.state = ...
sc_setstate(c) ==
  /\ AtOp(c, "state")
  /\ sc_state' = [sc_state EXCEPT ![c] = Arg(c)]
  /\ sc_pc' = [sc_pc EXCEPT ![c] = @ + 1]
  /\ UNCHANGED <<sc_site, sc_busy, sc_held, sc_intr, sc_intena, sc_panic>>
  /\ UNCHANGED notSc

\* the assertions of Cpu::sched, in their order
sched_assert(c) ==
  IF ~Holds(c, "proc") THEN "sched proc lock"
  ELSE IF Len(sc_held[c]) # 1 THEN "sched multiple locks"
  ELSE IF sc_state[c] = "RUNNING" THEN "shced running"
  ELSE IF sc_intr[c] THEN "sched interruptible"
  ELSE "none"

\* Cpu::sched.  A zombie does not come back: the CPU goes on with another
\* process; any other process is RUNNING again when swtch returns.
sc_sched(c) ==
  /\ AtOp(c, "sched")
  /\ sc_panic' = sched_assert(c)
  /\ IF sched_assert(c) # "none"
       THEN UNCHANGED <<sc_site, sc_busy, sc_pc, sc_held, sc_state, sc_intr,
                        sc_intena>>
     ELSE IF sc_state[c] = "ZOMBIE"
       THEN /\ sc_site' = [sc_site EXCEPT ![c] = "none"]
            /\ sc_busy' = [sc_busy EXCEPT ![c] = FALSE]
            /\ sc_pc' = [sc_pc EXCEPT ![c] = 1]
            /\ sc_held' = [sc_held EXCEPT ![c] = <<>>]
            /\ sc_state' = [sc_state EXCEPT ![c] = "RUNNING"]
            /\ sc_intr' = [sc_intr EXCEPT ![c] = TRUE]
            /\ sc_intena' = [sc_intena EXCEPT ![c] = FALSE]
     ELSE /\ sc_state' = [sc_state EXCEPT ![c] = "RUNNING"]
          /\ sc_pc' = [sc_pc EXCEPT ![c] = @ + 1]
          /\ UNCHANGED <<sc_site, sc_busy, sc_held, sc_intr, sc_intena>>
  /\ UNCHANGED notSc

\* the path is at its end: back to user space
sc_ret(c) ==
  /\ sc_panic = "none" /\ sc_site[c] # "none"
  /\ sc_pc[c] > Len(Prog(c))
  /\ sc_site' = [sc_site EXCEPT ![c] = "none"]
  /\ sc_busy' = [sc_busy EXCEPT ![c] = FALSE]
  /\ sc_pc' = [sc_pc EXCEPT ![c] = 1]
  /\ sc_intena' = [sc_intena EXCEPT ![c] = FALSE]
  /\ UNCHANGED <<sc_held, sc_state, sc_intr, sc_panic>>
  /\ UNCHANGED notSc

NextSc ==
  \/ \E c \in 1..NCPU, site \in Sites, busy \in BOOLEAN : sc_call(c, site, busy)
  \/ \E c \in 1..NCPU : sc_lock(c)
  \/ \E c \in 1..NCPU : sc_unlock(c)
  \/ \E c \in 1..NCPU : sc_setstate(c)
  \/ \E c \in 1..NCPU : sc_sched(c)
  \/ \E c \in 1..NCPU : sc_ret(c)

SpecSc == InitSc /\ [][NextSc]_vars

\* the process on c is about to be switched out, or was stopped there
AtSched(c) ==
  /\ sc_site[c] # "none" /\ sc_pc[c] <= Len(Prog(c))
  /\ Prog(c)[sc_pc[c]].op = "sched"

\* C29: BCache::get has given up the lru lock and the lock of the control
\* record before it takes the sleep lock of the buffer: a thread that
\* sleeps for a busy buffer holds no spin lock but that of its process.
C29_GetSleepsBare ==
  \A c \in 1..NCPU :
    (sc_site[c] = "bcache_get" /\ AtSched(c)) =>
      ~Holds(c, "bcache") /\ ~Holds(c, "ctrl")

\* C30: every call of Cpu::sched, from sleep, yielding and exit, comes with
\* the lock of the process as the one spin lock held, interrupts off and a
\* state that is not RUNNING: no assertion of sched fails.
C30_SchedAsserts ==
  /\ sc_panic = "none"
  /\ \A c \in 1..NCPU :
       AtSched(c) => /\ sc_held[c] = <<"proc">>
                     /\ ~sc_intr[c]
                     /\ sc_state[c] # "RUNNING"

(***************************************************************************)
(* Harts and processes: Process::sleep, Procs::wakeup, Process::yielding   *)
(* and Cpu::sched (proc.rs) under a sleep lock (sleeplock.rs) and the      *)
(* clock (trap.rs, sysproc.rs).  The scheduler's loop is not in proc.rs;   *)
(* it is taken as its callers expect it: it holds the lock of the slot it  *)
(* switches into, and clears Cpu.proc and releases the lock when the       *)
(* process switches back.  A step that needs a spin lock another context   *)
(* holds is not enabled.  A timer interrupt is taken where interrupts are  *)
(* on: in the scheduler's loop, in user space, and in the kernel while no  *)
(* spin lock is held.                                                      *)
(***************************************************************************)
KProcs == 1..NKP
Harts == 1..NCPU

InitKc == OldIdle /\ KcRest /\ KcIdle

\* a variant of proc_lock that leaves the slot lock alone
proc_lock_skipped(pl, p) == pl
\* self.inner.lock() in sleep and yielding
proc_lock(pl, p) == [pl EXCEPT ![p] = TRUE]

\* a variant of wake_slot that wakes no one
wake_slot_never(st, ch, c, i) == st
\* Procs::wakeup(c), the body of its loop for slot i
wake_slot(st, ch, c, i) ==
  IF st[i] = "SLEEPING" /\ ch[i] = c THEN [st EXCEPT ![i] = "RUNNABLE"] ELSE st

HartOf(p) == {h \in Harts : kc_cur[h] = p}
\* p's kernel thread runs: a hart has it as its process, no handler is on
\* top of it, and it has not switched away
Runs(p) ==
  /\ kc_panic = "none"
  /\ kc_pc[p] \notin {"swtch", "off"}
  /\ \E h \in HartOf(p) : kc_irq[h] = "none"

kcSched == <<kc_cur, kc_state, kc_chan, kc_plock, kc_pc, kc_ret>>
kcLock == <<kc_lk, kc_locked, kc_pid, kc_n, kc_wi>>
kcClock == <<kc_irq, kc_tl, kc_togo, kc_hwi>>

\* the scheduler on hart h switches into p
scheduler_pick(h, p) ==
  /\ kc_panic = "none" /\ kc_cur[h] = 0 /\ kc_irq[h] = "none"
  /\ ~kc_plock[p] /\ kc_state[p] = "RUNNABLE"
  /\ kc_plock' = [kc_plock EXCEPT ![p] = TRUE]
  /\ kc_state' = [kc_state EXCEPT ![p] = "RUNNING"]
  /\ kc_cur' = [kc_cur EXCEPT ![h] = p]
  /\ kc_pc' = [kc_pc EXCEPT ![p] = kc_ret[p]]
  /\ UNCHANGED <<kc_chan, kc_ret, kcLock, kcClock, kc_panic>>
  /\ UNCHANGED notKc

\* the scheduler on hart h after p has switched back: Cpu.proc is cleared
\* and the slot lock released
scheduler_back(h) ==
  /\ kc_panic = "none" /\ kc_cur[h] # 0 /\ kc_irq[h] = "none"
  /\ kc_pc[kc_cur[h]] = "swtch"
  /\ kc_plock' = [kc_plock EXCEPT ![kc_cur[h]] = FALSE]
  /\ kc_pc' = [kc_pc EXCEPT ![kc_cur[h]] = "off"]
  /\ kc_cur' = [kc_cur EXCEPT ![h] = 0]
  /\ UNCHANGED <<kc_state, kc_chan, kc_ret, kcLock, kcClock, kc_panic>>
  /\ UNCHANGED notKc

\* the first switch into a process ends in fork_ret, a later one in
\* yielding: the slot lock is let go
kc_resume(p) ==
  /\ Runs(p) /\ kc_pc[p] \in {"out", "held"} /\ kc_plock[p]
  /\ kc_plock' = [kc_plock EXCEPT ![p] = FALSE]
  /\ UNCHANGED <<kc_cur, kc_state, kc_chan, kc_pc, kc_ret, kcLock, kcClock,
                 kc_panic>>
  /\ UNCHANGED notKc

\* a process asks for the sleep lock: SleepLock::lock
kc_call_lock(p) ==
  /\ Runs(p) /\ kc_pc[p] = "out" /\ ~kc_plock[p]
  /\ kc_n[p] < NACQ
  /\ kc_n' = [kc_n EXCEPT ![p] = @ + 1]
  /\ kc_pc' = [kc_pc EXCEPT ![p] = "sl_lock"]
  /\ UNCHANGED <<kc_cur, kc_state, kc_chan, kc_plock, kc_ret, kc_lk,
                 kc_locked, kc_pid, kc_wi, kcClock, kc_panic>>
  /\ UNCHANGED notKc

\* SleepLock::lock: self.lk.lock(), also the mutex.lock() at the end of sleep
sl_lock(p) ==
  /\ Runs(p) /\ kc_pc[p] = "sl_lock"
  /\ kc_lk = 0
  /\ kc_lk' = p
  /\ kc_pc' = [kc_pc EXCEPT ![p] = "sl_test"]
  /\ UNCHANGED <<kc_cur, kc_state, kc_chan, kc_plock, kc_ret, kc_locked,
                 kc_pid, kc_n, kc_wi, kcClock, kc_panic>>
  /\ UNCHANGED notKc

\* SleepLock::lock: while lk.locked, and what follows the loop.  Going to
\* sleep starts with the slot lock: Process::sleep, self.inner.lock()
sl_test(p) ==
  /\ Runs(p) /\ kc_pc[p] = "sl_test"
  /\ IF kc_locked
       THEN /\ ~kc_plock[p]
            /\ kc_plock' = proc_lock(kc_plock, p)
            /\ kc_pc' = [kc_pc EXCEPT ![p] = "sl_sleep"]
            /\ UNCHANGED <<kc_lk, kc_locked, kc_pid>>
       ELSE /\ kc_locked' = TRUE
            /\ kc_pid' = p
            /\ kc_lk' = 0
            /\ kc_pc' = [kc_pc EXCEPT ![p] = "held"]
            /\ UNCHANGED kc_plock
  /\ UNCHANGED <<kc_cur, kc_state, kc_chan, kc_ret, kc_n, kc_wi, kcClock,
                 kc_panic>>
  /\ UNCHANGED notKc

\* Process::sleep: Mutex::unlock(mutex_guard), chan and SLEEPING are set,
\* Cpu::sched switches to the scheduler
sl_sleep(p) ==
  /\ Runs(p) /\ kc_pc[p] = "sl_sleep"
  /\ kc_lk' = 0
  /\ kc_chan' = [kc_chan EXCEPT ![p] = "lock"]
  /\ kc_state' = [kc_state EXCEPT ![p] = "SLEEPING"]
  /\ kc_pc' = [kc_pc EXCEPT ![p] = "swtch"]
  /\ kc_ret' = [kc_ret EXCEPT ![p] = "sl_tidy"]
  /\ UNCHANGED <<kc_cur, kc_plock, kc_locked, kc_pid, kc_n, kc_wi, kcClock,
                 kc_panic>>
  /\ UNCHANGED notKc

\* Process::sleep after sched has returned: chan = 0, the slot lock is
\* dropped; mutex.lock() comes next
sl_tidy(p) ==
  /\ Runs(p) /\ kc_pc[p] = "sl_tidy"
  /\ kc_chan' = [kc_chan EXCEPT ![p] = "none"]
  /\ kc_plock' = [kc_plock EXCEPT ![p] = FALSE]
  /\ kc_pc' = [kc_pc EXCEPT ![p] = "sl_lock"]
  /\ UNCHANGED <<kc_cur, kc_state, kc_ret, kcLock, kcClock, kc_panic>>
  /\ UNCHANGED notKc

\* SleepLockGuard::drop: lk.lock(), locked = false, pid = 0; PROCS.wakeup
\* comes next, with lk held
sl_drop(p) ==
  /\ Runs(p) /\ kc_pc[p] = "held" /\ ~kc_plock[p]
  /\ kc_lk = 0
  /\ kc_lk' = p
  /\ kc_locked' = FALSE
  /\ kc_pid' = 0
  /\ kc_wi' = [kc_wi EXCEPT ![p] = 1]
  /\ kc_pc' = [kc_pc EXCEPT ![p] = "sl_wake"]
  /\ UNCHANGED <<kc_cur, kc_state, kc_chan, kc_plock, kc_ret, kc_n, kcClock,
                 kc_panic>>
  /\ UNCHANGED notKc

\* Procs::wakeup(the sleep lock) from SleepLockGuard::drop, one pass of its
\* loop; after the last pass the guard of lk is dropped
sl_wake(p) ==
  /\ Runs(p) /\ kc_pc[p] = "sl_wake"
  /\ IF kc_wi[p] > NKP
       THEN /\ kc_lk' = 0
            /\ kc_wi' = [kc_wi EXCEPT ![p] = 0]
            /\ kc_pc' = [kc_pc EXCEPT ![p] = "out"]
            /\ UNCHANGED kc_state
       ELSE /\ kc_wi[p] # p => ~kc_plock[kc_wi[p]]
            /\ kc_state' = IF kc_wi[p] = p THEN kc_state
                           ELSE wake_slot(kc_state, kc_chan, "lock", kc_wi[p])
            /\ kc_wi' = [kc_wi EXCEPT ![p] = @ + 1]
            /\ UNCHANGED <<kc_lk, kc_pc>>
  /\ UNCHANGED <<kc_cur, kc_chan, kc_plock, kc_ret, kc_locked, kc_pid, kc_n,
                 kcClock, kc_panic>>
  /\ UNCHANGED notKc

\* a timer interrupt on hart h.  devintr calls clockintr on the hart with
\* cpu_id 0, hart 1 here; the others go on to the yield
timer(h) ==
  /\ kc_panic = "none" /\ kc_irq[h] = "none"
  /\ kc_cur[h] # 0 =>
       kc_pc[kc_cur[h]] \in {"out", "held"} /\ ~kc_plock[kc_cur[h]]
  /\ kc_irq' = [kc_irq EXCEPT ![h] = IF h = 1 THEN "clock" ELSE "yield"]
  /\ UNCHANGED <<kcSched, kcLock, kc_tl, kc_togo, kc_hwi, kc_panic>>
  /\ UNCHANGED notKc

\* usertrap and kerneltrap after a timer interrupt: a process that is
\* RUNNING gives up the hart, Process::yielding up to the switch
irq_yield(h) ==
  /\ kc_panic = "none" /\ kc_irq[h] = "yield"
  /\ kc_irq' = [kc_irq EXCEPT ![h] = "none"]
  /\ IF kc_cur[h] # 0 /\ kc_state[kc_cur[h]] = "RUNNING"
       THEN LET p == kc_cur[h]
            IN  /\ ~kc_plock[p]
                /\ kc_plock' = proc_lock(kc_plock, p)
                /\ kc_state' = [kc_state EXCEPT ![p] = "RUNNABLE"]
                /\ kc_ret' = [kc_ret EXCEPT ![p] = kc_pc[p]]
                /\ kc_pc' = [kc_pc EXCEPT ![p] = "swtch"]
       ELSE UNCHANGED <<kc_plock, kc_state, kc_ret, kc_pc>>
  /\ UNCHANGED <<kc_cur, kc_chan, kcLock, kc_tl, kc_togo, kc_hwi, kc_panic>>
  /\ UNCHANGED notKc

NextSl ==
  \/ \E h \in Harts, p \in KProcs : scheduler_pick(h, p)
  \/ \E h \in Harts : scheduler_back(h)
  \/ \E p \in KProcs : kc_resume(p)
  \/ \E p \in KProcs : kc_call_lock(p)
  \/ \E p \in KProcs : sl_lock(p)
  \/ \E p \in KProcs : sl_test(p)
  \/ \E p \in KProcs : sl_sleep(p)
  \/ \E p \in KProcs : sl_tidy(p)
  \/ \E p \in KProcs : sl_drop(p)
  \/ \E p \in KProcs : sl_wake(p)
  \/ \E h \in Harts \ {1} : timer(h)
  \/ \E h \in Harts : irq_yield(h)

SpecSl == InitKc /\ [][NextSl]_vars

\* the steps of p's kernel thread once it has asked for the lock
SlStep(p) ==
  \/ kc_resume(p)
  \/ sl_lock(p)
  \/ sl_test(p)
  \/ sl_sleep(p)
  \/ sl_tidy(p)
  \/ sl_wake(p)

\* a hart keeps running its thread, a spin lock that is free again and
\* again is got, the scheduler's loop keeps visiting every slot, and the
\* timer keeps ticking.  A holder gives the lock back, however often the
\* timer takes the hart from it.  Each process asks for the lock NACQ times
\* at most, so that a waiter cannot be overtaken for ever.
SpecSlFair ==
  /\ SpecSl
  /\ \A p \in KProcs :
       /\ SF_vars(SlStep(p))
       /\ SF_vars(sl_drop(p))
       /\ SF_vars(\E h \in Harts : scheduler_pick(h, p))
  /\ \A h \in Harts :
       /\ WF_vars(scheduler_back(h))
       /\ WF_vars(irq_yield(h))
  /\ \A h \in Harts \ {1} : WF_vars(timer(h))

\* p is in SleepLock::lock
InLock(p) ==
  \/ kc_pc[p] \in {"sl_lock", "sl_test", "sl_sleep", "sl_tidy"}
  \/ kc_pc[p] \in {"swtch", "off"} /\ kc_ret[p] = "sl_tidy"

\* a process that sleeps for the lock has its wakeup before it: the lock is
\* held, or a wakeup that has not come to its slot yet is under way
NoLostWakeup ==
  \A p \in KProcs :
    (kc_state[p] = "SLEEPING" /\ kc_chan[p] = "lock") =>
      \/ kc_locked
      \/ \E w \in KProcs : kc_pc[w] = "sl_wake" /\ kc_wi[w] <= p

kc_call_sleep(p) ==
  /\ Runs(p) /\ kc_pc[p] = "out" /\ ~kc_plock[p]
  /\ kc_togo' = [kc_togo EXCEPT ![p] = 1]
  /\ kc_pc' = [kc_pc EXCEPT ![p] = "tk_lock"]
  /\ UNCHANGED <<kc_cur, kc_state, kc_chan, kc_plock, kc_ret, kcLock, kc_irq,
                 kc_tl, kc_hwi, kc_panic>>
  /\ UNCHANGED notKc

\* sys_sleep: TICKS.lock(), also the mutex.lock() at the end of sleep
tk_lock(p) ==
  /\ Runs(p) /\ kc_pc[p] = "tk_lock"
  /\ kc_tl = 0
  /\ kc_tl' = p
  /\ kc_pc' = [kc_pc EXCEPT ![p] = "tk_test"]
  /\ UNCHANGED <<kc_cur, kc_state, kc_chan, kc_plock, kc_ret, kcLock, kc_irq,
                 kc_togo, kc_hwi, kc_panic>>
  /\ UNCHANGED notKc

\* sys_sleep: while *ticks - ticks0 < n, and the return
tk_test(p) ==
  /\ Runs(p) /\ kc_pc[p] = "tk_test"
  /\ IF kc_togo[p] > 0
       THEN /\ ~kc_plock[p]
            /\ kc_plock' = proc_lock(kc_plock, p)
            /\ kc_pc' = [kc_pc EXCEPT ![p] = "tk_sleep"]
            /\ UNCHANGED kc_tl
       ELSE /\ kc_tl' = 0
            /\ kc_pc' = [kc_pc EXCEPT ![p] = "out"]
            /\ UNCHANGED kc_plock
  /\ UNCHANGED <<kc_cur, kc_state, kc_chan, kc_ret, kcLock, kc_irq, kc_togo,
                 kc_hwi, kc_panic>>
  /\ UNCHANGED notKc

\* Process::sleep(ticks, guard of TICKS) up to the switch
tk_sleep(p) ==
  /\ Runs(p) /\ kc_pc[p] = "tk_sleep"
  /\ kc_tl' = 0
  /\ kc_chan' = [kc_chan EXCEPT ![p] = "ticks"]
  /\ kc_state' = [kc_state EXCEPT ![p] = "SLEEPING"]
  /\ kc_pc' = [kc_pc EXCEPT ![p] = "swtch"]
  /\ kc_ret' = [kc_ret EXCEPT ![p] = "tk_tidy"]
  /\ UNCHANGED <<kc_cur, kc_plock, kcLock, kc_irq, kc_togo, kc_hwi, kc_panic>>
  /\ UNCHANGED notKc

\* Process::sleep after sched has returned
tk_tidy(p) ==
  /\ Runs(p) /\ kc_pc[p] = "tk_tidy"
  /\ kc_chan' = [kc_chan EXCEPT ![p] = "none"]
  /\ kc_plock' = [kc_plock EXCEPT ![p] = FALSE]
  /\ kc_pc' = [kc_pc EXCEPT ![p] = "tk_lock"]
  /\ UNCHANGED <<kc_cur, kc_state, kc_ret, kcLock, kcClock, kc_panic>>
  /\ UNCHANGED notKc

\* clockintr: TICKS.lock(), *ticks += 1
clockintr(h) ==
  /\ kc_panic = "none" /\ kc_irq[h] = "clock"
  /\ kc_tl = 0
  /\ kc_tl' = -1
  /\ kc_togo' = [p \in KProcs |-> IF kc_togo[p] > 0 THEN kc_togo[p] - 1 ELSE 0]
  /\ kc_hwi' = 1
  /\ kc_irq' = [kc_irq EXCEPT ![h] = "wake"]
  /\ UNCHANGED <<kcSched, kcLock, kc_panic>>
  /\ UNCHANGED notKc

\* clockintr: PROCS.wakeup(ticks), one pass of its loop.  Each pass calls
\* CPUS.my_proc().unwrap().  After the last pass TICKS is given back
clock_wake(h) ==
  /\ kc_panic = "none" /\ kc_irq[h] = "wake"
  /\ IF kc_hwi > NKP
       THEN /\ kc_tl' = 0
            /\ kc_hwi' = 0
            /\ kc_irq' = [kc_irq EXCEPT ![h] = "yield"]
            /\ UNCHANGED <<kc_state, kc_panic>>
     ELSE IF kc_cur[h] = 0
       THEN /\ kc_panic' = "unwrap"
            /\ UNCHANGED <<kc_state, kc_tl, kc_hwi, kc_irq>>
     ELSE /\ kc_hwi # kc_cur[h] => ~kc_plock[kc_hwi]
          /\ kc_state' = IF kc_hwi = kc_cur[h] THEN kc_state
                         ELSE wake_slot(kc_state, kc_chan, "ticks", kc_hwi)
          /\ kc_hwi' = kc_hwi + 1
          /\ UNCHANGED <<kc_tl, kc_irq, kc_panic>>
  /\ UNCHANGED <<kc_cur, kc_chan, kc_plock, kc_pc, kc_ret, kcLock, kc_togo>>
  /\ UNCHANGED notKc

NextKc ==
  \/ NextSl
  \/ timer(1)
  \/ \E p \in KProcs : kc_call_sleep(p)
  \/ \E p \in KProcs : tk_lock(p)
  \/ \E p \in KProcs : tk_test(p)
  \/ \E p \in KProcs : tk_sleep(p)
  \/ \E p \in KProcs : tk_tidy(p)
  \/ \E h \in Harts : clockintr(h)
  \/ \E h \in Harts : clock_wake(h)

SpecKc == InitKc /\ [][NextKc]_vars

\* C32: a wakeup from an interrupt handler on a hart that runs no process
\* goes through without a panic and makes every process that sleeps on the
\* channel RUNNABLE: no slot the loop has passed still sleeps on it.
C32_IdleWakeup ==
  /\ kc_panic # "unwrap"
  /\ \A h \in Harts : \A p \in KProcs :
       (kc_irq[h] = "wake" /\ kc_cur[h] = 0 /\ p < kc_hwi) =>
         ~(kc_state[p] = "SLEEPING" /\ kc_chan[p] = "ticks")

\* C36: a process is the current process of one hart at most: one that
\* has made itself RUNNABLE or SLEEPING is not taken by another hart before
\* it has switched to the scheduler and its slot lock is released.
C36_OneHart ==
  \A h1, h2 \in Harts :
    (h1 # h2 /\ kc_cur[h1] # 0) => kc_cur[h1] # kc_cur[h2]

\* a process has made itself RUNNABLE in yielding and has not switched
\* away yet, while another hart is in the scheduler's loop
C36_Witness ==
  \E p \in KProcs, h1, h2 \in Harts :
    /\ kc_cur[h1] = p /\ kc_pc[p] = "swtch" /\ kc_state[p] = "RUNNABLE"
    /\ kc_cur[h2] = 0 /\ kc_irq[h2] = "none"

(***************************************************************************)
(* The lock pair of fork, exit, wait, kill and sleep.  The processes of    *)
(* slots 1..NKP run kernel calls; every call is written down as the steps  *)
(* it takes on PROCS.wait_lock (WaitLock) and on the locks of the slots    *)
(* 1..NPROC of the pool.  What a call finds in the table (a free slot, the  *)
(* children, a zombie, the killed flag) is an input.  When a process is    *)
(* switched out in sched the scheduler gives up the lock of its slot, and  *)
(* takes it again before it switches back.                                  *)
(***************************************************************************)
InitLo == OldIdle /\ LoRest /\ LoIdle

WaitLock == 0

RECURSIVE LockEach(_)
\* a loop over slots that locks each one and drops the guard in the body
LockEach(s) ==
  IF s = <<>> THEN <<>>
  ELSE <<Lock(Head(s)), Unlock(Head(s))>> \o LockEach(Tail(s))

\* the slots of a set in the order of the pool
InPool(S) == SelectSeq([i \in 1..NPROC |-> i], LAMBDA i : i \in S)

\* Procs::wakeup called by p: every slot but its own
wakeup_locks(p) == LockEach(InPool(Others(p)))

\* Proc::sleep(chan, guard of x), with the switch to the scheduler and back
sleep_locks(p, x) ==
  <<Lock(p), Unlock(x), Unlock(p), Lock(p), Unlock(p), Lock(x)>>

\* fork with the guard of the new slot kept until the parent link is set
fork_locks_held(p, ok) ==
  IF ok THEN <<Lock(1), Lock(WaitLock), Unlock(WaitLock), Unlock(1)>>
  ELSE <<Lock(1), Unlock(1)>>

\* Proc::fork: alloc_proc looks at the first slot of the pool and hands it
\* on locked when it is UNUSED (ok)
fork_locks(p, ok) ==
  IF ok
    THEN <<Lock(1), Unlock(1), Lock(WaitLock), Unlock(WaitLock), Lock(1),
           Unlock(1)>>
  ELSE <<Lock(1), Unlock(1)>>

RECURSIVE Times(_, _)
Times(n, s) == IF n = 0 THEN <<>> ELSE s \o Times(n - 1, s)

\* Proc::exit of a process with n children: reparent wakes init once for
\* each child, then the parent is woken; the guard of the own slot goes
\* into sched and the scheduler gives the lock up
exit_locks(p, n) ==
  <<Lock(WaitLock)>> \o Times(n + 1, wakeup_locks(p))
    \o <<Lock(p), Unlock(WaitLock), Unlock(p)>>

\* Proc::wait: the scan of the children kids up to the first ZOMBIE (0 for
\* none), then the own killed flag (dead), then sleep or return
wait_locks(p, kids, zombie, dead) ==
  <<Lock(WaitLock)>>
    \o LockEach(InPool({k \in kids : zombie = 0 \/ k <= zombie}))
    \o (IF zombie # 0 \/ kids = {} THEN <<>>
        ELSE <<Lock(p), Unlock(p)>>
               \o (IF dead THEN <<>> ELSE sleep_locks(p, WaitLock)))
    \o <<Unlock(WaitLock)>>

\* Procs::kill: the slots up to slot k, where the pid is found
kill_locks(k) == LockEach(InPool(1..k))

LoAt(p, op) ==
  /\ lo_pc[p] <= Len(lo_prog[p]) /\ lo_prog[p][lo_pc[p]].op = op
LoArg(p) == lo_prog[p][lo_pc[p]].x
LoHolds(p, x) == \E i \in 1..Len(lo_held[p]) : lo_held[p][i] = x
LoFree(x) == \A q \in 1..NKP : ~LoHolds(q, x)

\* p enters the kernel with the lock steps prog before it
lo_enter(p, prog) ==
  /\ lo_prog[p] = <<>>
  /\ lo_prog' = [lo_prog EXCEPT ![p] = prog]
  /\ UNCHANGED <<lo_pc, lo_held>>
  /\ UNCHANGED notLo

\* the calls: fork, exit (never of init), wait and kill
lo_fork(p, ok) ==
  /\ lo_enter(p, fork_locks(p, ok))

lo_exit(p, n) ==
  /\ p # INITPROC
  /\ lo_enter(p, exit_locks(p, n))

lo_wait(p, kids, zombie, dead) ==
  /\ zombie = 0 \/ zombie \in kids
  /\ lo_enter(p, wait_locks(p, kids, zombie, dead))

lo_kill(p, k) ==
  /\ lo_enter(p, kill_locks(k))

\* Mutex::lock: spin until the lock is free
lo_lock(p) ==
  /\ LoAt(p, "lock")
  /\ LoFree(LoArg(p))
  /\ lo_held' = [lo_held EXCEPT ![p] = Append(@, LoArg(p))]
  /\ lo_pc' = [lo_pc EXCEPT ![p] = @ + 1]
  /\ UNCHANGED lo_prog
  /\ UNCHANGED notLo

\* the drop of a guard
lo_unlock(p) ==
  /\ LoAt(p, "unlock")
  /\ lo_held' = [lo_held EXCEPT ![p] = Without(@, LoArg(p))]
  /\ lo_pc' = [lo_pc EXCEPT ![p] = @ + 1]
  /\ UNCHANGED lo_prog
  /\ UNCHANGED notLo

\* the call is over
lo_ret(p) ==
  /\ lo_prog[p] # <<>> /\ lo_pc[p] > Len(lo_prog[p])
  /\ lo_prog' = [lo_prog EXCEPT ![p] = <<>>]
  /\ lo_pc' = [lo_pc EXCEPT ![p] = 1]
  /\ UNCHANGED lo_held
  /\ UNCHANGED notLo

NextLo ==
  \/ \E p \in 1..NKP, ok \in BOOLEAN : lo_fork(p, ok)
  \/ \E p \in 1..NKP, n \in 0..1 : lo_exit(p, n)
  \/ \E p \in 1..NKP : \E kids \in SUBSET Others(p), zombie \in 0..NPROC,
                           dead \in BOOLEAN :
       lo_wait(p, kids, zombie, dead)
  \/ \E p \in 1..NKP, k \in 1..NPROC : lo_kill(p, k)
  \/ \E p \in 1..NKP : lo_lock(p)
  \/ \E p \in 1..NKP : lo_unlock(p)
  \/ \E p \in 1..NKP : lo_ret(p)

SpecLo == InitLo /\ [][NextLo]_vars

\* p can take its next step
LoCanStep(p) ==
  \/ LoAt(p, "lock") /\ LoFree(LoArg(p))
  \/ LoAt(p, "unlock")
  \/ lo_prog[p] # <<>> /\ lo_pc[p] > Len(lo_prog[p])

\* C34: fork, exit, wait, kill and sleep take the lock of a slot either
\* under wait_lock or without it, and never wait_lock under the lock of a
\* slot: wait_lock is the first lock a process holds, it is asked for with
\* no lock held, and some process in the kernel can always go on.
C34_WaitLockFirst ==
  /\ \A p \in 1..NKP :
       /\ \A i \in 1..Len(lo_held[p]) : lo_held[p][i] = WaitLock => i = 1
       /\ (LoAt(p, "lock") /\ LoArg(p) = WaitLock) => lo_held[p] = <<>>
  /\ (\E p \in 1..NKP : lo_prog[p] # <<>>) => \E p \in 1..NKP : LoCanStep(p)

\* process 2 holds wait_lock and, inside it, the lock of a slot, while
\* process 1 spins for wait_lock
C34_Witness ==
  /\ Len(lo_held[2]) = 2 /\ lo_held[2][1] = WaitLock
  /\ LoAt(1, "lock") /\ LoArg(1) = WaitLock

(***************************************************************************)
(* Path::skip_elem as a function of the path.  A path is a sequence over   *)
(* '/' and one other character; an Option is a sequence of length 0 or 1.  *)
(***************************************************************************)
PathChars == {"/", "a"}
PePaths == UNION {[1..n -> PathChars] : n \in 0..NPATH}

InitPe == OldIdle /\ PeRest /\ pe_path \in PePaths /\ pe_out = <<>>

None == <<>>
Some(x) == <<x>>

RECURSIVE trim_start(_)
trim_start(s) == IF s # <<>> /\ Head(s) = "/" THEN trim_start(Tail(s)) ELSE s
RECURSIVE trim_end(_)
trim_end(s) ==
  IF s # <<>> /\ s[Len(s)] = "/" THEN trim_end(SubSeq(s, 1, Len(s) - 1)) ELSE s
\* str::trim_matches('/')
trim_matches(s) == trim_end(trim_start(s))

\* str::split_once('/'): the parts before and after the first '/'
split_once(s) ==
  LET at == {i \in 1..Len(s) : s[i] = "/"}
  IN  IF at = {} THEN None
      ELSE LET i == CHOOSE i \in at : \A j \in at : i <= j
           IN  Some(<<SubSeq(s, 1, i - 1), SubSeq(s, i + 1, Len(s))>>)

\* Path::skip_elem
path_skip_elem(inner) ==
  LET sp == split_once(trim_matches(inner))
  IN  IF sp # None /\ Len(sp[1][1]) <= DIRSIZ
        THEN <<Some(sp[1][1]), Some(sp[1][2])>>
      ELSE IF sp = None /\ 0 < Len(inner) /\ Len(inner) < DIRSIZ
        THEN <<Some(inner), None>>
      ELSE <<None, None>>

\* path.skip_elem()
pe_skip_elem ==
  /\ pe_out = <<>>
  /\ pe_out' = path_skip_elem(pe_path)
  /\ UNCHANGED pe_path
  /\ UNCHANGED notPe

\* Path::namex goes on with the rest of the path
pe_namex_next ==
  /\ pe_out # <<>> /\ pe_out[2] # None
  /\ pe_path' = pe_out[2][1]
  /\ pe_out' = <<>>
  /\ UNCHANGED notPe

NextPe == pe_skip_elem \/ pe_namex_next

SpecPe == InitPe /\ [][NextPe]_vars

\* the first element of a path: what stands between its leading slashes
\* and the next slash
FirstElem(s) ==
  LET t == trim_start(s)
      at == {i \in 1..Len(t) : t[i] = "/"}
  IN  IF at = {} THEN t
      ELSE SubSeq(t, 1, (CHOOSE i \in at : \A j \in at : i <= j) - 1)

\* C35: skip_elem returns the first element of the path without the
\* slashes around it, and no name at all, (None, None), for the empty path
\* and for a path of slashes only.
C35_SkipElem ==
  pe_out # <<>> =>
    /\ trim_matches(pe_path) = <<>> => pe_out = <<None, None>>
    /\ pe_out[1] # None => pe_out[1][1] = FirstElem(pe_path)

(***************************************************************************)
(* RwLock.  Threads on different harts call try_read, try_write and        *)
(* try_upgrade (read, write and upgrade repeat them until they succeed)    *)
(* and drop the guards; each access to rcnt or wcnt is one step.           *)
(***************************************************************************)
InitRw == OldIdle /\ RwRest /\ RwIdle

\* try_read: rcnt.fetch_add(1)
try_read_add(t) ==
  /\ rw_pc[t] = "idle"
  /\ rw_rcnt' = rw_rcnt + 1
  /\ rw_pc' = [rw_pc EXCEPT ![t] = "try_read"]
  /\ UNCHANGED rw_wcnt
  /\ UNCHANGED notRw

\* try_read: wcnt.load(); with a writer rcnt.fetch_sub(1) and None,
\* else the read guard
try_read_test(t) ==
  /\ rw_pc[t] = "try_read"
  /\ IF rw_wcnt
       THEN /\ rw_rcnt' = rw_rcnt - 1
            /\ rw_pc' = [rw_pc EXCEPT ![t] = "idle"]
     ELSE /\ rw_pc' = [rw_pc EXCEPT ![t] = "read"]
          /\ UNCHANGED rw_rcnt
  /\ UNCHANGED rw_wcnt
  /\ UNCHANGED notRw

\* wcnt.compare_exchange_weak(false, true), which may fail for no reason:
\* whether it succeeded, and wcnt after it
cas_weak(wcnt, spurious) ==
  IF wcnt \/ spurious THEN [ok |-> FALSE, wcnt |-> wcnt]
  ELSE [ok |-> TRUE, wcnt |-> TRUE]

\* try_write: the exchange on wcnt; Err when it fails
try_write_cas(t, spurious) ==
  /\ rw_pc[t] = "idle"
  /\ rw_wcnt' = cas_weak(rw_wcnt, spurious).wcnt
  /\ rw_pc' = [rw_pc EXCEPT ![t] =
                 IF cas_weak(rw_wcnt, spurious).ok THEN "try_write" ELSE "idle"]
  /\ UNCHANGED rw_rcnt
  /\ UNCHANGED notRw

\* try_write: rcnt.load() < 1 gives the write guard, else Err
try_write_test(t) ==
  /\ rw_pc[t] = "try_write"
  /\ rw_pc' = [rw_pc EXCEPT ![t] = IF rw_rcnt < 1 THEN "write" ELSE "idle"]
  /\ UNCHANGED <<rw_rcnt, rw_wcnt>>
  /\ UNCHANGED notRw

\* try_upgrade of a read guard: the exchange on wcnt; Err(self) when it fails
try_upgrade_cas(t, spurious) ==
  /\ rw_pc[t] = "read"
  /\ rw_wcnt' = cas_weak(rw_wcnt, spurious).wcnt
  /\ rw_pc' = [rw_pc EXCEPT ![t] =
                 IF cas_weak(rw_wcnt, spurious).ok THEN "try_upgrade" ELSE "read"]
  /\ UNCHANGED rw_rcnt
  /\ UNCHANGED notRw

\* try_upgrade: rcnt.load() == 1 gives the write guard and drops the read
\* guard self; else Err(self)
try_upgrade_test(t) ==
  /\ rw_pc[t] = "try_upgrade"
  /\ IF rw_rcnt = 1
       THEN /\ rw_rcnt' = rw_rcnt - 1
            /\ rw_pc' = [rw_pc EXCEPT ![t] = "write"]
     ELSE /\ rw_pc' = [rw_pc EXCEPT ![t] = "read"]
          /\ UNCHANGED rw_rcnt
  /\ UNCHANGED rw_wcnt
  /\ UNCHANGED notRw

\* drop of a read guard
read_drop(t) ==
  /\ rw_pc[t] = "read"
  /\ rw_rcnt > 0
  /\ rw_rcnt' = rw_rcnt - 1
  /\ rw_pc' = [rw_pc EXCEPT ![t] = "idle"]
  /\ UNCHANGED rw_wcnt
  /\ UNCHANGED notRw

\* drop of a write guard
write_drop(t) ==
  /\ rw_pc[t] = "write"
  /\ rw_wcnt
  /\ rw_wcnt' = FALSE
  /\ rw_pc' = [rw_pc EXCEPT ![t] = "idle"]
  /\ UNCHANGED rw_rcnt
  /\ UNCHANGED notRw

NextRw ==
  \/ \E t \in 1..NRW : try_read_add(t)
  \/ \E t \in 1..NRW : try_read_test(t)
  \/ \E t \in 1..NRW, spurious \in BOOLEAN : try_write_cas(t, spurious)
  \/ \E t \in 1..NRW : try_write_test(t)
  \/ \E t \in 1..NRW, spurious \in BOOLEAN : try_upgrade_cas(t, spurious)
  \/ \E t \in 1..NRW : try_upgrade_test(t)
  \/ \E t \in 1..NRW : read_drop(t)
  \/ \E t \in 1..NRW : write_drop(t)

SpecRw == InitRw /\ [][NextRw]_vars

\* the threads that hold a read guard (one that tries to upgrade it still
\* does), and those that hold a write guard
ReadGuards == {t \in 1..NRW : rw_pc[t] \in {"read", "try_upgrade"}}
WriteGuards == {t \in 1..NRW : rw_pc[t] = "write"}

\* a write guard is never live together with another guard
RwExclusive ==
  \A w \in WriteGuards : WriteGuards = {w} /\ ReadGuards = {}

\* C37: no write guard is live together with a read guard or another write
\* guard, and a try_write or try_upgrade that failed has left the lock as
\* it was: when every guard is dropped and no call is under way the lock
\* is free again, rcnt = 0 and wcnt = false, so that read and write succeed.
C37_RwLock ==
  /\ RwExclusive
  /\ (\A t \in 1..NRW : rw_pc[t] = "idle") => (rw_rcnt = 0 /\ ~rw_wcnt)

(***************************************************************************)
(* SyncOnceCell::get_or_init and Once::call_once, called from several      *)
(* harts.  Each access to the atomic state is one step; the initializer    *)
(* runs in a step of its own and the value is written in two steps.  The   *)
(* initializer does not panic.                                             *)
(***************************************************************************)
InitOc == OldIdle /\ OcRest /\ OcIdle

\* an exchange that takes place whatever the state holds
compare_exchange_blind(cur, old, new) == [ok |-> TRUE, v |-> new]

\* AtomicUsize::compare_exchange(old, new) on the value cur
compare_exchange(cur, old, new) ==
  IF cur = old THEN [ok |-> TRUE, v |-> new] ELSE [ok |-> FALSE, v |-> cur]

OcStep(h, from, to) ==
  /\ oc_pc[h] = from
  /\ oc_pc' = [oc_pc EXCEPT ![h] = to]

\* get_or_init, get_or_try_init, try_get: the load of the state
oc_try_get(h) ==
  /\ oc_pc[h] = "idle"
  /\ oc_state # "POISONED"
  /\ oc_pc' = [oc_pc EXCEPT ![h] =
                 CASE oc_state = "READY" -> "done"
                   [] oc_state = "UNINIT" -> "try_block"
                   [] OTHER -> "spin"]
  /\ oc_ret' = [oc_ret EXCEPT ![h] =
                  IF oc_state = "READY" THEN oc_inner ELSE @]
  /\ UNCHANGED <<oc_state, oc_inner, oc_runs, on_state, on_runs, on_seen>>
  /\ UNCHANGED notOc

\* try_init_inner, try_block: UNINIT -> BLOCKED, or Err and on to the loop
\* of get_or_init
oc_try_block(h) ==
  /\ oc_pc[h] = "try_block"
  /\ LET x == compare_exchange(oc_state, "UNINIT", "BLOCKED")
     IN  /\ oc_state' = x.v
         /\ oc_pc' = [oc_pc EXCEPT ![h] = IF x.ok THEN "func" ELSE "spin"]
  /\ UNCHANGED <<oc_inner, oc_runs, on_state, on_runs, oc_ret, on_seen>>
  /\ UNCHANGED notOc

\* try_init_inner: func()
oc_func(h) ==
  /\ OcStep(h, "func", "write")
  /\ oc_runs <= NRW
  /\ oc_runs' = oc_runs + 1
  /\ UNCHANGED <<oc_state, oc_inner, on_state, on_runs, oc_ret, on_seen>>
  /\ UNCHANGED notOc

\* try_init_inner: inner.as_mut_ptr().write(..), begun
oc_write_begin(h) ==
  /\ OcStep(h, "write", "written")
  /\ oc_inner' = "partial"
  /\ UNCHANGED <<oc_state, oc_runs, on_state, on_runs, oc_ret, on_seen>>
  /\ UNCHANGED notOc

\* try_init_inner: the write done, poison = false, the drop of the guard
\* (unblock(READY)) and Ok(get_unchecked())
oc_write_end(h) ==
  /\ OcStep(h, "written", "done")
  /\ oc_inner' = "init"
  /\ oc_state' = "READY"
  /\ oc_ret' = [oc_ret EXCEPT ![h] = "init"]
  /\ UNCHANGED <<oc_runs, on_state, on_runs, on_seen>>
  /\ UNCHANGED notOc

\* get_or_init: the loop that waits for READY, then get_unchecked()
oc_spin(h) ==
  /\ oc_state = "READY"
  /\ OcStep(h, "spin", "done")
  /\ oc_ret' = [oc_ret EXCEPT ![h] = oc_inner]
  /\ UNCHANGED <<oc_state, oc_inner, oc_runs, on_state, on_runs, on_seen>>
  /\ UNCHANGED notOc

\* the caller has the reference and goes on
oc_return(h) ==
  /\ oc_pc[h] \in {"done", "once_done"}
  /\ oc_pc' = [oc_pc EXCEPT ![h] = "idle"]
  /\ oc_ret' = [oc_ret EXCEPT ![h] = "none"]
  /\ UNCHANGED <<oc_state, oc_inner, oc_runs, on_state, on_runs, on_seen>>
  /\ UNCHANGED notOc

\* Once::call_once: is_completed(), else call_inner with its first load
call_once(h) ==
  /\ oc_pc[h] = "idle"
  /\ oc_pc' = [oc_pc EXCEPT ![h] =
                 IF on_state = "COMPLETE" THEN "once_done" ELSE "call_inner"]
  /\ on_seen' = [on_seen EXCEPT ![h] = on_state]
  /\ UNCHANGED <<oc_state, oc_inner, oc_runs, on_state, on_runs, oc_ret>>
  /\ UNCHANGED notOc

\* Once::call_inner: one round of its loop
call_inner(h) ==
  /\ oc_pc[h] = "call_inner"
  /\ on_seen[h] # "POISONED"
  /\ CASE on_seen[h] = "COMPLETE" ->
            /\ oc_pc' = [oc_pc EXCEPT ![h] = "once_done"]
            /\ UNCHANGED <<on_state, on_seen>>
       [] on_seen[h] = "IMCOMPLETE" ->
            LET x == compare_exchange(on_state, "IMCOMPLETE", "RUNNING")
            IN  /\ on_state' = x.v
                /\ on_seen' = [on_seen EXCEPT ![h] = x.v]
                /\ oc_pc' = [oc_pc EXCEPT ![h] =
                               IF x.ok THEN "once_init" ELSE "call_inner"]
       [] OTHER ->
            /\ on_seen[h] # on_state
            /\ on_seen' = [on_seen EXCEPT ![h] = on_state]
            /\ UNCHANGED <<on_state, oc_pc>>
  /\ UNCHANGED <<oc_state, oc_inner, oc_runs, on_runs, oc_ret>>
  /\ UNCHANGED notOc

\* call_inner: init(&init_state)
once_init(h) ==
  /\ OcStep(h, "once_init", "once_guard")
  /\ on_runs <= NRW
  /\ on_runs' = on_runs + 1
  /\ UNCHANGED <<oc_state, oc_inner, oc_runs, on_state, oc_ret, on_seen>>
  /\ UNCHANGED notOc

\* the drop of the OnceGuard: swap(COMPLETE)
once_guard_drop(h) ==
  /\ OcStep(h, "once_guard", "once_done")
  /\ on_state = "RUNNING"
  /\ on_state' = "COMPLETE"
  /\ UNCHANGED <<oc_state, oc_inner, oc_runs, on_runs, oc_ret, on_seen>>
  /\ UNCHANGED notOc

NextOc ==
  \/ \E h \in 1..NRW : oc_try_get(h)
  \/ \E h \in 1..NRW : oc_try_block(h)
  \/ \E h \in 1..NRW : oc_func(h)
  \/ \E h \in 1..NRW : oc_write_begin(h)
  \/ \E h \in 1..NRW : oc_write_end(h)
  \/ \E h \in 1..NRW : oc_spin(h)
  \/ \E h \in 1..NRW : oc_return(h)
  \/ \E h \in 1..NRW : call_once(h)
  \/ \E h \in 1..NRW : call_inner(h)
  \/ \E h \in 1..NRW : once_init(h)
  \/ \E h \in 1..NRW : once_guard_drop(h)

SpecOc == InitOc /\ [][NextOc]_vars

\* C39: with calls from several harts the initializer of a SyncOnceCell and
\* the closure of a Once run once and no more, and a call returns only when
\* the run is over: get_or_init with a reference to the value written in
\* full, call_once with the Once COMPLETE.
C39_InitOnce ==
  /\ oc_runs <= 1 /\ on_runs <= 1
  /\ \A h \in 1..NRW :
       /\ oc_pc[h] = "done" =>
            (oc_ret[h] = "init" /\ oc_inner = "init" /\ oc_runs = 1)
       /\ oc_pc[h] = "once_done" => (on_state = "COMPLETE" /\ on_runs = 1)

\* two harts have the value from get_or_init, one of them after it lost
\* the exchange or found the cell BLOCKED, and a third is back from
\* call_once
C39_Witness ==
  /\ oc_pc[1] = "done" /\ oc_pc[2] = "done" /\ oc_pc[3] = "once_done"

(***************************************************************************)
(* The descriptors of the virtio disk.  Disk::rw runs under the lock of    *)
(* the disk: alloc3_desc and the set-up of the chain are one step, and so  *)
(* is free_chain when the request is done; Disk::intr tells that it is.    *)
(* A thread whose alloc3_desc fails sleeps and tries again.                *)
(***************************************************************************)
InitVd == OldIdle /\ VdRest /\ VdIdle

Descs == 0..(NUM - 1)
\* the disk as the descriptor functions see it
VdDisk == [free |-> vd_free, next |-> vd_next, chained |-> vd_chained,
           panic |-> "none"]

\* Disk::alloc_desc: the first free descriptor is marked non-free; -1 for
\* None
alloc_desc(d) ==
  IF \A i \in Descs : ~d.free[i] THEN [d |-> d, i |-> -1]
  ELSE LET i == CHOOSE i \in Descs :
                  d.free[i] /\ \A j \in Descs : d.free[j] => i <= j
       IN  [d |-> [d EXCEPT !.free[i] = FALSE], i |-> i]

\* Disk::free_desc(i)
free_desc(d, i) ==
  IF d.panic # "none" THEN d
  ELSE IF i >= NUM THEN [d EXCEPT !.panic = "free_dec 1"]
  ELSE IF d.free[i] THEN [d EXCEPT !.panic = "free_desc 2"]
  ELSE [d EXCEPT !.next[i] = 0, !.chained[i] = FALSE, !.free[i] = TRUE]

RECURSIVE free_from(_, _, _)
\* for j in from..i { free_desc(j) }, i not included
free_from(d, from, i) ==
  IF from >= i THEN d ELSE free_from(free_desc(d, from), from + 1, i)

RECURSIVE alloc3_loop(_, _, _)
\* the loop of alloc3_desc from its round i on, idx as filled so far
alloc3_loop(d, i, idx) ==
  IF i = 3 THEN [st |-> "ok", d |-> d, idx |-> idx]
  ELSE LET a == alloc_desc(d)
       IN  IF a.i = -1
             THEN LET u == free_from(d, 0, i)
                  IN  [st |-> IF u.panic = "none" THEN "err" ELSE "panic",
                       d |-> u, idx |-> idx]
           ELSE alloc3_loop(a.d, i + 1, Append(idx, a.i))

\* Disk::alloc3_desc
alloc3_desc(d) == alloc3_loop(d, 0, <<>>)

RECURSIVE free_chain(_, _)
\* Disk::free_chain(i)
free_chain(d, i) ==
  LET f == free_desc(d, i)
  IN  IF f.panic # "none" THEN f
      ELSE IF d.chained[i] THEN free_chain(f, d.next[i])
      ELSE f

\* rw: the descriptors of idx are made a chain
chain(d, idx) ==
  [d EXCEPT !.next[idx[1]] = idx[2], !.chained[idx[1]] = TRUE,
            !.next[idx[2]] = idx[3], !.chained[idx[2]] = TRUE,
            !.next[idx[3]] = 0, !.chained[idx[3]] = FALSE]

VdSet(d) ==
  /\ vd_free' = d.free
  /\ vd_next' = d.next
  /\ vd_chained' = d.chained
  /\ vd_panic' = d.panic

\* Disk::rw: alloc3_desc; with three descriptors the request is handed to
\* the device, else the thread sleeps for a free descriptor
vd_rw_alloc(t) ==
  /\ vd_panic = "none" /\ vd_req[t] = <<>>
  /\ LET r == alloc3_desc(VdDisk)
     IN  /\ VdSet(IF r.st = "ok" THEN chain(r.d, r.idx) ELSE r.d)
         /\ vd_req' = [vd_req EXCEPT ![t] = IF r.st = "ok" THEN r.idx ELSE @]
         /\ vd_busy' = [vd_busy EXCEPT ![t] = (r.st = "ok")]
         /\ vd_call' = [op |-> "alloc3_desc", st |-> r.st, free |-> vd_free,
                        idx |-> r.idx]
  /\ UNCHANGED notVd

\* Disk::intr: the device is done with the request of t
vd_intr(t) ==
  /\ vd_panic = "none" /\ vd_busy[t]
  /\ vd_busy' = [vd_busy EXCEPT ![t] = FALSE]
  /\ vd_call' = [op |-> "intr"]
  /\ UNCHANGED <<vd_free, vd_next, vd_chained, vd_req, vd_panic>>
  /\ UNCHANGED notVd

\* Disk::rw after the interrupt of the device: free_chain(idx[0])
vd_rw_done(t) ==
  /\ vd_panic = "none" /\ vd_req[t] # <<>> /\ ~vd_busy[t]
  /\ UNCHANGED vd_busy
  /\ VdSet(free_chain(VdDisk, vd_req[t][1]))
  /\ vd_req' = [vd_req EXCEPT ![t] = <<>>]
  /\ vd_call' = [op |-> "free_chain"]
  /\ UNCHANGED notVd

NextVd ==
  \/ \E t \in 1..NVD : vd_rw_alloc(t)
  \/ \E t \in 1..NVD : vd_intr(t)
  \/ \E t \in 1..NVD : vd_rw_done(t)

SpecVd == InitVd /\ [][NextVd]_vars

ReqDescs(t) == {vd_req[t][k] : k \in 1..Len(vd_req[t])}

\* C40: alloc3_desc returns three different descriptors that were free, or
\* fails and leaves the free map as it was before the call; the
\* descriptors of a request in flight are not free, and no descriptor is
\* part of two requests.
C40_AllOrNothing ==
  /\ vd_call.op = "alloc3_desc" =>
       /\ vd_call.st = "ok" =>
            /\ Cardinality({vd_call.idx[k] : k \in 1..3}) = 3
            /\ \A k \in 1..3 : vd_call.free[vd_call.idx[k]]
       /\ vd_call.st # "ok" => vd_free = vd_call.free
  /\ \A t \in 1..NVD : \A i \in ReqDescs(t) : ~vd_free[i]
  /\ \A t \in 1..NVD, u \in 1..NVD : t # u => ReqDescs(t) \cap ReqDescs(u) = {}

(***************************************************************************)
(* IData::dirlink on its own: one call on a directory as InitDir draws     *)
(* it, with a name of one byte or of DIRSIZ bytes.                         *)
(***************************************************************************)
LongName == [i \in 1..DIRSIZ |-> 100]

\* a call of dirlink(name, inum) on the directory
call_dirlink(name, inum) ==
  /\ lcall.st = "none"
  /\ LET r == dirlink(dents, dsize, name, inum)
     IN  /\ dents' = r.blks /\ dsize' = r.size
         /\ lcall' = [old |-> name, new |-> name, st |-> r.st, inum |-> inum,
                      blks |-> dents, size |-> dsize]
  /\ UNCHANGED <<nlink, names0, nlink0, ucall>>
  /\ UNCHANGED notDir

NextDirlink ==
  \E name \in FileNames \cup {LongName}, inum \in Inums \ {ROOTINO} :
    call_dirlink(name, inum)

SpecDirlink == InitDir /\ [][NextDirlink]_vars

\* the entry of a directory at index k, from 0
EntAt(blks, k) == blks[bmap(k \div BSIZE)][(k % BSIZE) + 1]

\* C24: dirlink(name, inum) fails if name is present; otherwise it writes
\* the new entry into the first slot whose inum is 0, or appends it at the
\* end, leaves every entry that is in use as it was, and dirlookup(name)
\* then returns inum.
C24_Dirlink ==
  lcall.st # "none" =>
    LET free == {k \in 0..(lcall.size - 1) : EntAt(lcall.blks, k).inum = 0}
        slot == IF free = {} THEN lcall.size
                ELSE CHOOSE k \in free : \A j \in free : k <= j
    IN  IF \E e \in names0 : e[1] = lcall.old
          THEN lcall.st = "err" /\ dents = lcall.blks /\ dsize = lcall.size
          ELSE /\ lcall.st = "ok"
               /\ EntAt(dents, slot).inum = lcall.inum
               /\ Trim(EntAt(dents, slot).name) = lcall.old
               /\ \A k \in 0..(lcall.size - 1) :
                    k # slot => EntAt(dents, k) = EntAt(lcall.blks, k)
               /\ dsize = (IF free = {} THEN lcall.size + 1 ELSE lcall.size)
               /\ NamesOf(dents, dsize) = names0 \cup {<<lcall.old, lcall.inum>>}

(***************************************************************************)
(* More on the buffer cache.                                               *)
(***************************************************************************)
\* C28: BCache::get panics with "no buffers" only when every buffer is
\* checked out or pinned: while one buffer is released by all its users and
\* not pinned, a get of a block that is not cached recycles it.
C28_NoBuffersOnlyWhenFull ==
  bc_panic = "no buffers" =>
    \A b \in Bufs : CheckedOut(b) \/ bc_pins[b] > 0

(***************************************************************************)
(* The log while the machine stays up, with the scheduling the kernel      *)
(* gives: a thread that can take a step in the kernel takes it in the end  *)
(* (every RUNNABLE process is run, a spin lock is got), a thread that is   *)
(* woken again and again while the log can admit it is admitted in the     *)
(* end.  What a thread does in user space, how often it writes and when   *)
(* it calls end_op is left to it.                                          *)
(***************************************************************************)
LogStep(t) ==
  \/ begin_op(t)
  \/ commit_write_log(t)
  \/ commit_write_head(t)
  \/ commit_install_trans(t)
  \/ commit_clear(t)
  \/ end_op_done(t)

NextLogUp ==
  \/ \E t \in Threads : fs_syscall(t)
  \/ \E t \in Threads : end_op(t)
  \/ \E t \in Threads, b \in HomeBlocks, v \in Values : log_write(t, b, v)
  \/ \E t \in Threads : LogStep(t)

Admitted(t) == begin_op(t) /\ pc'[t] = "in_op"

SpecLogFair ==
  /\ InitLog /\ [][NextLogUp]_vars
  /\ \A t \in Threads : WF_vars(LogStep(t)) /\ SF_vars(Admitted(t))

\* every admitted transaction calls end_op in the end
EveryOpEnds == \A t \in Threads : (pc[t] = "in_op") ~> (pc[t] # "in_op")

Leaves(pt) == {v \in UPages : is_v(pt[v]) /\ is_leaf(pt[v])}
\* the pages of [0, pgroundup(sz))
ImagePages(sz) == {v \in UPages : v * PGSZ < pgroundup(sz)}

\* PageTable::freewalk on the flat table: a valid leaf is a panic
freewalk(pt) ==
  IF \E v \in PageNos : is_v(pt[v]) /\ is_leaf(pt[v]) THEN "panic" ELSE "ok"

\* a free that unmaps the whole pages of size only
uvm_free_floor(pt, fr, size) ==
  LET u == IF size > 0 THEN unmap(pt, fr, 0, size \div PGSZ, TRUE)
           ELSE [st |-> "ok", pt |-> pt, fr |-> fr]
  IN  [st |-> IF u.st = "ok" THEN freewalk(u.pt) ELSE u.st,
       pt |-> u.pt, fr |-> u.fr]

\* Uvm::free(size)
uvm_free(pt, fr, size) ==
  LET u == IF size > 0 THEN unmap(pt, fr, 0, pgroundup(size) \div PGSZ, TRUE)
           ELSE [st |-> "ok", pt |-> pt, fr |-> fr]
  IN  [st |-> IF u.st = "ok" THEN freewalk(u.pt) ELSE u.st,
       pt |-> u.pt, fr |-> u.fr]

\* Uvm::proc_uvmfree(size)
proc_uvmfree(pt, fr, size) ==
  LET t == unmap(pt, fr, TRAMPOLINE, 1, FALSE)
      f == IF t.st = "ok" THEN unmap(t.pt, t.fr, TRAPFLAME, 1, FALSE) ELSE t
  IN  IF f.st = "ok" THEN uvm_free(f.pt, f.fr, size) ELSE f

NoChild == [v \in PageNos |-> NoPte]

\* exec: the segment, the stack, then proc_uvmfree of the old image with
\* the old size; when an alloc fails, proc_uvmfree of the new image with
\* the size reached so far
im_exec(segsz, xperm, fail) ==
  /\ ~upanic
  /\ pgroundup(segsz) + 2 * PGSZ <= NUPAGES * PGSZ
  /\ LET seg == alloc(proc_uvmcreate, uframes, 0, segsz, xperm, fail)
         sz1 == pgroundup(segsz)
         stk == alloc(seg.pt, seg.fr, sz1, sz1 + 2 * PGSZ, PTE_W, fail)
         bad == IF seg.st # "ok"
                  THEN IF seg.st = "panic" THEN seg
                       ELSE proc_uvmfree(seg.pt, seg.fr, 0)
                ELSE IF stk.st = "panic" THEN stk
                ELSE proc_uvmfree(stk.pt, stk.fr, sz1)
         old == proc_uvmfree(upt, stk.fr, usz)
     IN  IF seg.st = "ok" /\ stk.st = "ok"
           THEN /\ upt' = clear(stk.pt, (stk.sz - 2 * PGSZ) \div PGSZ)
                /\ uframes' = old.fr
                /\ usz' = stk.sz
                /\ uguard' = {(stk.sz - 2 * PGSZ) \div PGSZ}
                /\ upanic' = (old.st = "panic")
                /\ uvcall' = [op |-> "exec", st |-> old.st, sz |-> usz]
         ELSE /\ UNCHANGED <<upt, usz, uguard>>
              /\ uframes' = bad.fr
              /\ upanic' = (bad.st = "panic")
              /\ uvcall' = [op |-> "exec_bad", st |-> bad.st, sz |-> sz1]
  /\ ucpt' = NoChild /\ ucguard' = {}
  /\ UNCHANGED notUvm

\* fork: Uvm::copy into the child's table from proc_uvmcreate.  When the
\* copy fails at page failat the pages copied so far are unmapped and
\* free_proc frees the child's table with size 0.
im_fork(failat) ==
  /\ ~upanic
  /\ LET pages == {v \in UPages : v * PGSZ < usz}
         copied == [v \in PageNos |->
                      IF v \in pages /\ (failat \notin pages \/ v < failat)
                        THEN [pa |-> NFRAMES + 1 + v, flags |-> upt[v].flags]
                      ELSE proc_uvmcreate[v]]
         undo == unmap(copied, {}, 0, failat, TRUE)
         freed == IF undo.st = "ok" THEN proc_uvmfree(undo.pt, {}, 0) ELSE undo
     IN  IF \E v \in pages : ~is_v(upt[v])
           THEN /\ upanic' = TRUE
                /\ UNCHANGED <<ucpt, ucguard>>
                /\ uvcall' = [op |-> "fork", st |-> "panic", sz |-> usz]
         ELSE IF failat \in pages
           THEN /\ ucpt' = NoChild
                /\ ucguard' = {}
                /\ upanic' = (freed.st = "panic")
                /\ uvcall' = [op |-> "fork_bad", st |-> freed.st, sz |-> usz]
         ELSE /\ ucpt' = copied
              /\ ucguard' = uguard \cap pages
              /\ uvcall' = [op |-> "fork", st |-> "ok", sz |-> usz]
              /\ UNCHANGED upanic
  /\ UNCHANGED <<upt, usz, uframes, uguard>>
  /\ UNCHANGED notUvm

\* the child exits and wait frees it: free_proc, proc_uvmfree(sz) with the
\* size it got from its parent
im_free_child ==
  /\ ~upanic
  /\ ucpt # NoChild
  /\ LET f == proc_uvmfree(ucpt, {}, usz)
     IN  /\ upanic' = (f.st = "panic")
         /\ uvcall' = [op |-> "free_child", st |-> f.st, sz |-> usz]
  /\ ucpt' = NoChild /\ ucguard' = {}
  /\ UNCHANGED <<upt, usz, uframes, uguard>>
  /\ UNCHANGED notUvm

\* the process exits and is freed: free_proc, proc_uvmfree(sz); the slot
\* goes to a new process with an empty image
im_free ==
  /\ ~upanic
  /\ ucpt = NoChild
  /\ LET f == proc_uvmfree(upt, uframes, usz)
     IN  /\ upanic' = (f.st = "panic")
         /\ uvcall' = [op |-> "free", st |-> f.st, sz |-> usz]
         /\ uframes' = f.fr
  /\ upt' = proc_uvmcreate
  /\ usz' = 0
  /\ uguard' = {}
  /\ UNCHANGED <<ucpt, ucguard>>
  /\ UNCHANGED notUvm

NextImage ==
  \/ \E n \in {-PGSZ, -1, 1, PGSZ}, fail \in Fails : sys_sbrk(n, PTE_W, fail)
  \/ \E segsz \in 0..((NUPAGES - 2) * PGSZ), xperm \in {0, PTE_X},
        fail \in Fails : im_exec(segsz, xperm, fail)
  \/ \E failat \in UPages \cup {-1} : im_fork(failat)
  \/ im_free_child
  \/ im_free

SpecImage == InitUvm /\ [][NextImage]_vars

RECURSIVE SumTo(_, _)
SumTo(f, k) == IF k = 0 THEN 0 ELSE f[k] + SumTo(f, k - 1)
\* blocks appended to the log by the operations still outstanding
Appended == SumTo(napp, NTHREADS)

\* C1: after a crash anywhere in end_op's commit sequence and the recovery
\* that follows, the home blocks are all at their pre-transaction contents
\* (crash before the header write) or all at their post-transaction
\* contents (crash after it), never a mixture.
C1_CommitAtomic ==
  (boot = "recovered" /\ crashed # "none") =>
    Home(disk) = IF crashed = "after" THEN txnPost ELSE txnPre

\* a crash after the commit point of a transaction that changes at least two
\* home blocks, recovered
C1_Witness ==
  /\ boot = "recovered" /\ crashed = "after"
  /\ Cardinality({b \in HomeBlocks : txnPost[b] # txnPre[b]}) >= 2

\* C2 as stated: in every reachable state
\* lh.n + outstanding * MAXOPBLOCKS <= LOGSIZE.
C2_Stated == lh.n + outstanding * MAXOPBLOCKS <= LOGSIZE

\* C2, amended: the blocks logged by operations that have ended, plus
\* MAXOPBLOCKS for every outstanding operation, fit in the log; so lh.n,
\* which also counts the blocks the outstanding operations have appended
\* (at most MAXOPBLOCKS each), never exceeds LOGSIZE.
C2_Reservation ==
  /\ (lh.n - Appended) + outstanding * MAXOPBLOCKS <= LOGSIZE
  /\ \A t \in Threads : napp[t] <= MAXOPBLOCKS
  /\ lh.n <= LOGSIZE

\* the reservation is used up exactly while operations are logging blocks
C2_Witness ==
  /\ outstanding > 1 /\ Appended > 0
  /\ (lh.n - Appended) + outstanding * MAXOPBLOCKS = LOGSIZE

\* C3: a commit runs only when no operation is outstanding, and while
\* committing is set no begin_op returns: outstanding stays 0, no thread is
\* inside an operation, and the header changes only by the committer's own
\* clearing of lh.n.
C3_CommitExclusive ==
  /\ [](committing => (outstanding = 0 /\ \A t \in Threads : pc[t] # "in_op"))
  /\ [][(committing /\ boot' = "up") =>
          (outstanding' = 0 /\ (lh' = lh \/ lh' = clear_head(lh)))]_vars

\* a commit is installing blocks while another thread sleeps in begin_op
\* although the log has room: only committing holds it back
C3_Witness ==
  /\ committing /\ ~LogFull(lh.n, outstanding)
  /\ \E t \in Threads : pc[t] = "install"
  /\ \E t \in Threads : pc[t] = "sleep"

\* C5: a recovery that starts with no disk write since the last recovery
\* completed finds n = 0 in the header and changes nothing on disk.
C5_RecoverIdempotent ==
  /\ []((rerun /\ boot = "install") => lh.n = 0)
  /\ [][(rerun /\ boot # "up") => disk' = disk]_vars

\* a second recovery in a row has completed on a disk whose header still
\* names the blocks of an earlier transaction
C5_Witness ==
  /\ rerun /\ boot = "recovered"
  /\ DecodeHead(disk[HeaderBlock]).block[1] # 0

====
